---- MODULE Spec2Model ----
(***************************************************************************)
(* Airtable -> Shopify synchronisation service.                            *)
(*                                                                         *)
(*   create_shopify_item      POST /create-shopify-item                    *)
(*                            (src/create_shopify_item.py)                 *)
(*   handle_airtable_webhook  POST /airtable-webhook                       *)
(*                            (src/webhook_handlers.py, src/shopify_utils.py)*)
(*                                                                         *)
(* A request is handled synchronously, one at a time.  Every outbound HTTP *)
(* call is one step of the handler; the remote side answers                *)
(* nondeterministically (success, HTTP error, transport error, ...).       *)
(***************************************************************************)
EXTENDS Integers, Sequences, FiniteSets, TLC

(***************************************************************************)
(* Values.                                                                 *)
(*                                                                         *)
(* JSON values of a request body:                                          *)
(*   [t |-> "absent"]            the key is not in the object              *)
(*   [t |-> "null"]              JSON null (Python None)                   *)
(*   [t |-> "str", s |-> chars]  a string, as a sequence of characters     *)
(*   [t |-> "num", v |-> number] a JSON number                             *)
(*   [t |-> "list"]              a non-empty JSON array                    *)
(*   [t |-> "map", m |-> fields] a non-empty JSON object                   *)
(*   [t |-> "emptymap"]          the JSON object {}                        *)
(* Python numbers: a finite decimal n/d (d a power of ten; d = 1 for an    *)
(* int), NaN, or an infinity.  PyNone is Python's None.                    *)
(***************************************************************************)
Absent == [t |-> "absent"]
JNull == [t |-> "null"]
JList == [t |-> "list"]
JStr(s) == [t |-> "str", s |-> s]
JNum(v) == [t |-> "num", v |-> v]

PyNone == [k |-> "none"]
Fin(n, d) == [k |-> "fin", n |-> n, d |-> d]
NaN == [k |-> "nan"]
Inf(neg) == [k |-> "inf", neg |-> neg]
PyInt(n) == Fin(n, 1)

\* dict.get(key, default): the default only replaces a missing key.
Get(raw, default) == IF raw.t = "absent" THEN default ELSE raw

\* dict.get(key): a missing key reads as None.
GetNone(raw) == Get(raw, JNull)

\* Python truthiness of a JSON value (bool(x)).
Truthy(x) ==
    CASE x.t \in {"absent", "null", "emptymap"} -> FALSE
      [] x.t = "str" -> x.s # <<>>
      [] x.t = "num" -> ~(x.v.k = "fin" /\ x.v.n = 0)
      [] OTHER -> TRUE

(***************************************************************************)
(* Text to number, as Python's float() and int() read it, over the         *)
(* characters digits, ".", "-", "+", " " and letters (plain decimal        *)
(* notation, "nan" and "inf"; no exponent, no underscore).                 *)
(***************************************************************************)
Digits == {"0", "1", "2", "3", "4", "5", "6", "7", "8", "9"}

DigitVal(c) ==
    CASE c = "0" -> 0 [] c = "1" -> 1 [] c = "2" -> 2 [] c = "3" -> 3
      [] c = "4" -> 4 [] c = "5" -> 5 [] c = "6" -> 6 [] c = "7" -> 7
      [] c = "8" -> 8 [] c = "9" -> 9

RECURSIVE LStrip(_)
LStrip(s) == IF s # <<>> /\ Head(s) = " " THEN LStrip(Tail(s)) ELSE s

RECURSIVE RStrip(_)
RStrip(s) ==
    IF s # <<>> /\ s[Len(s)] = " " THEN RStrip(SubSeq(s, 1, Len(s) - 1)) ELSE s

\* str.strip()
Strip(s) == RStrip(LStrip(s))

AllDigits(s) == \A i \in 1..Len(s) : s[i] \in Digits

RECURSIVE DigitsValue(_)
DigitsValue(s) ==
    IF s = <<>> THEN 0
    ELSE 10 * DigitsValue(SubSeq(s, 1, Len(s) - 1)) + DigitVal(s[Len(s)])

RECURSIVE Pow10(_)
Pow10(e) == IF e = 0 THEN 1 ELSE 10 * Pow10(e - 1)

HasSign(s) == s # <<>> /\ Head(s) \in {"-", "+"}
Unsigned(s) == IF HasSign(s) THEN Tail(s) ELSE s
Negative(s) == s # <<>> /\ Head(s) = "-"

DotAt(s) == {i \in 1..Len(s) : s[i] = "."}

ParseError == [k |-> "error"]

\* int(s) for a string: optional sign, then one or more digits.
ParseInt(s) ==
    LET t == Strip(s)
        u == Unsigned(t)
    IN  IF u # <<>> /\ AllDigits(u)
        THEN PyInt(IF Negative(t) THEN 0 - DigitsValue(u) ELSE DigitsValue(u))
        ELSE ParseError

\* float(s) for a string: "nan", "inf", or a signed decimal with at most one
\* point and at least one digit.
ParseFloat(s) ==
    LET t == Strip(s)
        u == Unsigned(t)
        dots == DotAt(u)
    IN  IF u = <<"n", "a", "n">> THEN NaN
        ELSE IF u = <<"i", "n", "f">> THEN Inf(Negative(t))
        ELSE IF Cardinality(dots) > 1 THEN ParseError
        ELSE LET p == IF dots = {} THEN Len(u) + 1 ELSE CHOOSE i \in dots : TRUE
                 ip == SubSeq(u, 1, p - 1)
                 fp == SubSeq(u, p + 1, Len(u))
                 m == DigitsValue(ip \o fp)
             IN  IF AllDigits(ip) /\ AllDigits(fp) /\ ip \o fp # <<>>
                 THEN Fin(IF Negative(t) THEN 0 - m ELSE m, Pow10(Len(fp)))
                 ELSE ParseError

\* x > 0 on Python numbers (any comparison with NaN is False).
GtZero(v) ==
    CASE v.k = "fin" -> v.n > 0
      [] v.k = "inf" -> ~v.neg
      [] OTHER -> FALSE

\* create_shopify_item._to_number: None, blank and whatever float() rejects
\* give 0; any other value goes through float().
ToNumberCreate(x) ==
    CASE x.t \in {"absent", "null"} -> PyInt(0)
      [] x.t = "str" ->
            IF Strip(x.s) = <<>> THEN PyInt(0)
            ELSE IF ParseFloat(x.s) = ParseError THEN PyInt(0)
            ELSE ParseFloat(x.s)
      [] x.t = "num" -> x.v
      [] OTHER -> PyInt(0)

\* shopify_utils._to_number: None stays None, a number is returned as is, a
\* string goes through float() when it holds a point and int() otherwise;
\* blank and unparseable give None.
ToNumberUtils(x) ==
    CASE x.t \in {"absent", "null"} -> PyNone
      [] x.t = "num" -> x.v
      [] x.t = "str" ->
            LET s == Strip(x.s)
                r == IF DotAt(s) # {} THEN ParseFloat(s) ELSE ParseInt(s)
            IN  IF s = <<>> \/ r = ParseError THEN PyNone ELSE r
      [] OTHER -> PyNone

\* int(x) on a Python number: truncation towards zero; NaN and the
\* infinities raise (ValueError, OverflowError).
IntRaises(v) == v.k # "fin"

\* The mutant of IntOf: the quantity is rounded up instead of truncated.
IntOfCeil(v) ==
    IF v.n >= 0 THEN (v.n + v.d - 1) \div v.d ELSE 0 - ((0 - v.n) \div v.d)

IntOf(v) == IF v.n >= 0 THEN v.n \div v.d ELSE 0 - ((0 - v.n) \div v.d)

(***************************************************************************)
(* Bounds and input sets.                                                  *)
(***************************************************************************)
\* Requests handled in one run of the process.
MaxRequests == 2

RecOne == JStr(<<"r", "1">>)
SkuP100 == JStr(<<"P", "1", "0", "0">>)
NameOud == JStr(<<"O", "u", "d">>)
Blank == JStr(<<" ">>)
Empty == JStr(<<>>)
Garbage == JStr(<<"a", "b", "c">>)

\* 'Qty given in shopify' as the caller may send it.
QtyRaws ==
    { Absent, JNull, Blank, Garbage,
      JStr(<<"5">>), JStr(<<"-", "3">>), JStr(<<"0", ".", "5">>),
      JStr(<<"n", "a", "n">>), JNum(PyInt(0)), JNum(PyInt(5)) }

\* The fields of an Airtable record as create_shopify_item reads them.
FieldMaps ==
    [ ProductName : {Absent, Empty, NameOud},
      SKU : {Absent, Empty, SkuP100},
      Qty : QtyRaws,
      UAEPrice : {Absent, JStr(<<"9", ".", "5">>)},
      Weight : {Absent, Garbage},
      ImageURLs : {Absent, JList} ]

JMap(m) == [t |-> "map", m |-> m]
EmptyMap == [t |-> "emptymap"]

\* The body of POST /create-shopify-item: not a JSON object at all, or an
\* object with 'record_id' and 'fields'.
CreateRequests ==
    { [isObject |-> FALSE] } \cup
    { [isObject |-> TRUE, record_id |-> r, fields |-> f] :
        r \in {Absent, Empty, RecOne},
        f \in {Absent, JNull, EmptyMap, Garbage} \cup {JMap(m) : m \in FieldMaps} }

NoReq == [isObject |-> FALSE, none |-> TRUE]

\* Environment variables create_shopify_item.py reads at import.
RequiredVars ==
    {"SHOPIFY_SHOP", "SHOPIFY_API_TOKEN", "AIRTABLE_BASE_ID", "AIRTABLE_API_KEY"}

\* Status codes the platform answers POST products.json with.
CreateCodes == {200, 201, 422}

\* What GET locations.json may list: the first location is, or is not, the
\* primary one.
Location(id, primary) == [id |-> id, primary |-> primary]
LocationLists ==
    { <<Location(1, TRUE)>>, <<Location(2, FALSE), Location(1, TRUE)>> }

\* The metafields create_shopify_item writes, in order.
Metafield(owner, ns, key) == [owner |-> owner, ns |-> ns, key |-> key]
CreateMetafields ==
    << Metafield("product", "custom", "size"),
       Metafield("product", "custom", "brands"),
       Metafield("variant", "google_shopping", "age_group"),
       Metafield("variant", "google_shopping", "condition"),
       Metafield("variant", "google_shopping", "gender"),
       Metafield("variant", "google_shopping", "mpn") >>

\* How one metafieldsSet request can end.
MetafieldOutcomes == {"ok", "transport", "http", "errors", "userErrors"}

VARIABLES
    pc,        \* where the handler of the current request stands
    req,       \* the request being handled
    loc,       \* the handler's local variables
    calls,     \* outbound calls issued for the current request, in order
    log,       \* warnings printed for the current request
    resp,      \* the response returned, [code |-> 0] while there is none
    nreq,      \* requests received so far
    env,       \* environment variables that are set
    airtable,  \* create_shopify_item.airtable: "client" or "none"
    created,   \* products the platform holds, per SKU
    resend,    \* the request a caller re-runs, NoReq for arbitrary callers
    PREFERRED_LOCATION_ID,      \* shopify_utils: SHOPIFY_LOCATION_ID, 0 if unset
    CACHED_PRIMARY_LOCATION_ID, \* shopify_utils: 0 while nothing is cached
    CACHED_PRICE_LISTS          \* shopify_utils: NoPriceLists while it is None

\* The module state of shopify_utils.
webVars == <<PREFERRED_LOCATION_ID, CACHED_PRIMARY_LOCATION_ID, CACHED_PRICE_LISTS>>

\* CACHED_PRICE_LISTS = None, and a mapping it holds: the set of its
\* entries, one per key.
NoPriceLists == [cached |-> FALSE]
PriceLists(m) == [cached |-> TRUE, m |-> m]

vars == <<pc, req, loc, calls, log, resp, nreq, env, airtable, created, resend,
          webVars>>

NoResp == [code |-> 0]
NoLoc == [none |-> TRUE]
Response(code, body) == [code |-> code, body |-> body]
\* A SKU as the platform stores it: the text of the value sent.
SkuKey(raw) == IF raw.t = "str" THEN raw.s ELSE <<>>
Skus == {<<>>, SkuP100.s}

(***************************************************************************)
(* create_shopify_item                                                     *)
(***************************************************************************)
Call(op, args) == [op |-> op, args |-> args]
ErrorBody(msg) == [error |-> msg]

\* validate_environment: the required variables that are not set.
MissingVars(e) == RequiredVars \ e

\* The mutant of MissingFields: only the product name is required.
MissingFieldsNameOnly(m) ==
    {f \in {"ProductName"} : ~Truthy(m[f])}

\* The required fields of the record that are missing or empty.
MissingFields(m) ==
    {f \in {"ProductName", "SKU"} : ~Truthy(m[f])}

\* The mutant of StatusOf: a quantity of 0 counts as in stock.
StatusOfGeq(qty) == IF GtZero(qty) \/ qty = PyInt(0) THEN "active" ELSE "draft"

\* status = "active" if qty > 0 else "draft"
StatusOf(qty) == IF GtZero(qty) THEN "active" ELSE "draft"

\* Lines 273-290 of create_shopify_item: the environment check, the read of
\* the body and the validation of the input.  NoResp: the request passes.
CreateEntry(e, r) ==
    IF MissingVars(e) # {} THEN Response(500, ErrorBody("Unexpected error"))
    ELSE IF ~r.isObject THEN Response(500, ErrorBody("Unexpected error"))
    ELSE IF ~Truthy(r.record_id) \/ ~Truthy(r.fields)
         THEN Response(400, ErrorBody("Missing record_id or fields"))
    ELSE IF r.fields.t # "map" THEN Response(500, ErrorBody("Unexpected error"))
    ELSE IF MissingFields(r.fields.m) # {}
         THEN Response(400, ErrorBody("Missing required fields"))
    ELSE NoResp

\* The locals of create_shopify_item once the product payload is prepared.
CreateLocals(m) ==
    LET qty == ToNumberCreate(Get(m.Qty, JNum(PyInt(0))))
    IN  [ qty |-> qty,
          status |-> StatusOf(qty),
          price |-> ToNumberCreate(Get(m.UAEPrice, JNum(PyInt(0)))),
          weight |-> ToNumberCreate(Get(m.Weight, JNum(PyInt(850)))),
          sku |-> m.SKU,
          images |-> 0,
          create_code |-> 0,
          product_id |-> 0,
          variant_id |-> 0,
          inventory_item_id |-> 0,
          location_id |-> 0,
          inv_result |-> "unset",
          mf |-> 1,
          mf_failed |-> FALSE ]

\* A request arrives and is validated; a valid one has its payload prepared.
CreateReceive ==
    /\ pc = "idle"
    /\ nreq < MaxRequests
    /\ \E r \in CreateRequests :
        /\ resend \in {NoReq, r}
        /\ req' = r
        /\ LET early == CreateEntry(env, r)
           IN  IF early # NoResp
               THEN /\ resp' = early
                    /\ pc' = "done"
                    /\ loc' = NoLoc
               ELSE /\ resp' = NoResp
                    /\ loc' = CreateLocals(r.fields.m)
                    /\ pc' = IF Truthy(r.fields.m.ImageURLs) THEN "images" ELSE "search"
    /\ nreq' = nreq + 1
    /\ calls' = <<>>
    /\ log' = {}
    /\ UNCHANGED <<env, airtable, created, resend, webVars>>

\* get_linked_image_urls_from_name_field: the linked record is fetched; its
\* 'Name' is an image URL, or the fetch fails (logged, skipped).
CreateLinkedImages ==
    /\ pc = "images"
    /\ calls' = Append(calls, Call("airtableGetLinked", [table |-> "Image URLs"]))
    /\ \E found \in BOOLEAN :
        /\ loc' = [loc EXCEPT !.images = IF found THEN 1 ELSE 0]
        /\ pc' = IF found THEN "create" ELSE "search"
    /\ UNCHANGED <<req, log, resp, nreq, env, airtable, created, resend, webVars>>

\* ImageSearcher.search_by_product_name: without a linked image the media
\* library is searched by product name; an error counts as no image.
CreateImageSearch ==
    /\ pc = "search"
    /\ calls' = Append(calls, Call("imageSearch", [limit |-> 5]))
    /\ \E found \in BOOLEAN :
        loc' = [loc EXCEPT !.images = IF found THEN 1 ELSE 0]
    /\ pc' = "create"
    /\ UNCHANGED <<req, log, resp, nreq, env, airtable, created, resend, webVars>>

\* The response to a product-creation call that did not answer 201.
UpstreamError(code) ==
    Response(code, [error |-> "Shopify API error", status |-> code,
                    details |-> "upstream body"])

\* The mutant of CreateAccepted: any 2xx counts as created.
CreateAccepted2xx(code) == code \in 200..299

\* if resp.status_code != 201: ... return
CreateAccepted(code) == code = 201

\* Step 3: the product is created with one call.  Any status but 201 ends
\* the request with the upstream status; so does a 201 whose body lacks an
\* id; a transport error ends it with 500.
CreateProduct ==
    /\ pc = "create"
    /\ calls' = Append(calls,
          Call("createProduct",
               [sku |-> loc.sku, status |-> loc.status, price |-> loc.price,
                weight |-> loc.weight, images |-> loc.images]))
    /\ \/ \* requests.post raises
          /\ resp' = Response(500, ErrorBody("Unexpected error"))
          /\ pc' = "done"
          /\ UNCHANGED <<loc, created>>
       \/ \E code \in CreateCodes, complete \in BOOLEAN :
          LET n == created[SkuKey(loc.sku)] + 1
          IN  /\ created' = IF code = 201
                            THEN [created EXCEPT ![SkuKey(loc.sku)] = n]
                            ELSE created
              /\ IF ~CreateAccepted(code)
                 THEN /\ resp' = UpstreamError(code)
                      /\ loc' = [loc EXCEPT !.create_code = code]
                      /\ pc' = "done"
                 ELSE IF ~complete
                 THEN /\ resp' = Response(500,
                              ErrorBody("Incomplete product creation response"))
                      /\ loc' = [loc EXCEPT !.create_code = code]
                      /\ pc' = "done"
                 ELSE /\ loc' = [loc EXCEPT !.create_code = code,
                                            !.product_id = n,
                                            !.variant_id = n,
                                            !.inventory_item_id = n]
                      /\ pc' = "locations"
                      /\ UNCHANGED resp
    /\ UNCHANGED <<req, log, nreq, env, airtable, resend, webVars>>

\* Step 4, get_shopify_locations: the first location listed is taken; an
\* error or an empty list fails the inventory step only.
CreateGetLocations ==
    /\ pc = "locations"
    /\ calls' = Append(calls, Call("getLocations", [via |-> "rest"]))
    /\ \/ \E locs \in LocationLists :
            /\ loc' = [loc EXCEPT !.location_id = locs[1].id]
            /\ pc' = "inventory"
            /\ UNCHANGED log
       \/ /\ loc' = [loc EXCEPT !.inv_result = "error"]
          /\ log' = log \cup {"Inventory setting failed"}
          /\ pc' = "mf"
    /\ UNCHANGED <<req, resp, nreq, env, airtable, created, resend, webVars>>

\* Step 4, inventory_levels/set.json: the stock is set to int(qty) at the
\* location; int() raising or a non-2xx answer fails the inventory step only.
CreateSetInventory ==
    /\ pc = "inventory"
    /\ IF IntRaises(loc.qty)
       THEN /\ loc' = [loc EXCEPT !.inv_result = "error"]
            /\ log' = log \cup {"Inventory setting failed"}
            /\ UNCHANGED calls
       ELSE /\ calls' = Append(calls,
                  Call("setInventory",
                       [location_id |-> loc.location_id,
                        inventory_item_id |-> loc.inventory_item_id,
                        available |-> IntOf(loc.qty)]))
            /\ \/ /\ loc' = [loc EXCEPT !.inv_result = "ok"]
                  /\ UNCHANGED log
               \/ /\ loc' = [loc EXCEPT !.inv_result = "error"]
                  /\ log' = log \cup {"Inventory setting failed"}
    /\ pc' = "mf"
    /\ UNCHANGED <<req, resp, nreq, env, airtable, created, resend, webVars>>

\* create_shopify_item.set_metafield: True when the write went through;
\* every failure is caught, logged and returned as False.
SetMetafieldCreate(outcome) == outcome = "ok"

\* Step 5: the six metafields, one call each; the result is not looked at.
CreateSetMetafield ==
    /\ pc = "mf"
    /\ calls' = Append(calls, Call("setMetafield", CreateMetafields[loc.mf]))
    /\ \E outcome \in MetafieldOutcomes :
        /\ loc' = [loc EXCEPT !.mf = @ + 1,
                              !.mf_failed = @ \/ ~SetMetafieldCreate(outcome)]
        /\ log' = IF SetMetafieldCreate(outcome) THEN log
                  ELSE log \cup {"Error setting metafield"}
    /\ pc' = IF loc.mf = Len(CreateMetafields) THEN "writeback" ELSE "mf"
    /\ UNCHANGED <<req, resp, nreq, env, airtable, created, resend, webVars>>

\* The final response of create_shopify_item (lines 420-428).
CreateSuccess(l) ==
    Response(201, [success |-> TRUE, shopify_id |-> l.product_id,
                   variant_id |-> l.variant_id, images_used |-> l.images,
                   inventory_set |-> l.qty, status |-> l.status])

\* Step 6 and the final response: with an Airtable client the record gets
\* the product id and its 'Create in Shopify' flag cleared; a failure of
\* that update is logged.  The response is built from the locals.
CreateWriteBack ==
    /\ pc = "writeback"
    /\ IF airtable = "client"
       THEN /\ calls' = Append(calls,
                  Call("airtableUpdate",
                       [record_id |-> req.record_id.s,
                        ShopifyID |-> loc.product_id,
                        CreateInShopify |-> FALSE]))
            /\ \/ UNCHANGED log
               \/ log' = log \cup {"Airtable update failed"}
       ELSE UNCHANGED <<calls, log>>
    /\ resp' = CreateSuccess(loc)
    /\ pc' = "done"
    /\ UNCHANGED <<req, loc, nreq, env, airtable, created, resend, webVars>>

\* The response is sent; the handler's frame is gone.
Finish ==
    /\ pc = "done"
    /\ pc' = "idle"
    /\ req' = NoReq
    /\ loc' = NoLoc
    /\ calls' = <<>>
    /\ log' = {}
    /\ resp' = NoResp
    /\ UNCHANGED <<nreq, env, airtable, created, resend, webVars>>

\* The process as deployed: the variables set, and the Airtable client built
\* at import when its two credentials are there and the constructor worked.
EnvConfigs ==
    { [env |-> RequiredVars, airtable |-> "client"],
      [env |-> RequiredVars, airtable |-> "none"],
      [env |-> RequiredVars \ {"AIRTABLE_API_KEY"}, airtable |-> "none"] }

InitCommon ==
    /\ pc = "idle"
    /\ req = NoReq
    /\ loc = NoLoc
    /\ calls = <<>>
    /\ log = {}
    /\ resp = NoResp
    /\ nreq = 0
    /\ created = [s \in Skus |-> 0]
    /\ CACHED_PRICE_LISTS = NoPriceLists

InitCreate ==
    /\ InitCommon
    /\ PREFERRED_LOCATION_ID = 0
    /\ CACHED_PRIMARY_LOCATION_ID = 0
    /\ \E c \in EnvConfigs : env = c.env /\ airtable = c.airtable
    /\ resend = NoReq

NextCreate ==
    \/ CreateReceive
    \/ CreateLinkedImages
    \/ CreateImageSearch
    \/ CreateProduct
    \/ CreateGetLocations
    \/ CreateSetInventory
    \/ CreateSetMetafield
    \/ CreateWriteBack
    \/ Finish

SpecCreate == InitCreate /\ [][NextCreate]_vars

\* The caller re-runs the workflow with the same input.
InitRerun ==
    /\ InitCommon
    /\ PREFERRED_LOCATION_ID = 0
    /\ CACHED_PRIMARY_LOCATION_ID = 0
    /\ \E c \in EnvConfigs : env = c.env /\ airtable = c.airtable
    /\ resend \in CreateRequests

SpecRerun == InitRerun /\ [][NextCreate]_vars

(***************************************************************************)
(* Properties of create_shopify_item.                                      *)
(***************************************************************************)
IsCreateReq(r) == r # NoReq /\ "isObject" \in DOMAIN r
CallsOf(op) == {i \in 1..Len(calls) : calls[i].op = op}
LaterSteps == {"getLocations", "setInventory", "setMetafield", "airtableUpdate"}

\* C1: every product payload sent to the platform has status 'active' if
\* and only if the quantity coerced from 'Qty given in shopify' is greater
\* than 0, and 'draft' in every other case (missing, blank, unparseable,
\* zero or negative).
C1_StatusIffPositiveQty ==
    \A i \in CallsOf("createProduct") :
        LET raw == req.fields.m.Qty
            qty == ToNumberCreate(Get(raw, JNum(PyInt(0))))
        IN  /\ calls[i].args.status \in {"active", "draft"}
            /\ calls[i].args.status = "active" <=> GtZero(qty)
            /\ raw \in {Absent, JNull, Blank, Garbage, JStr(<<"-", "3">>),
                        JNum(PyInt(0))}
                  => calls[i].args.status = "draft"

\* C1 witness: a product payload went out as 'active' for the quantity "0.5".
C1_Witness ==
    \E i \in CallsOf("createProduct") :
        /\ calls[i].args.status = "active"
        /\ req.fields.m.Qty = JStr(<<"0", ".", "5">>)

\* C4: when the product-creation call answers any status other than 201 the
\* request ends with an error response carrying that status and the upstream
\* body, and no location lookup, inventory set, metafield write or Airtable
\* write-back is issued.
C4_CreateFailureAborts ==
    (IsCreateReq(req) /\ loc # NoLoc /\ loc.create_code \notin {0, 201}) =>
        /\ pc = "done"
        /\ resp = UpstreamError(loc.create_code)
        /\ \A i \in 1..Len(calls) : calls[i].op \notin LaterSteps
        /\ calls[Len(calls)].op = "createProduct"

\* C4 witness: the platform answered 422 and the request ended with 422.
C4_Witness ==
    /\ IsCreateReq(req) /\ loc # NoLoc
    /\ loc.create_code = 422
    /\ pc = "done" /\ resp.code = 422

\* C5: re-running the workflow with identical input never leaves more than
\* one product for the SKU on the platform.
C5_NoDuplicateProduct ==
    resend # NoReq => \A s \in Skus : created[s] <= 1

\* C6: when the product was created and the inventory step failed, the
\* metafields and the write-back still ran and the result is reported as
\* partial_success with the inventory error attached.
C6_InventoryFailureIsPartialSuccess ==
    (IsCreateReq(req) /\ pc = "done" /\ loc # NoLoc /\ loc.inv_result = "error") =>
        /\ Cardinality(CallsOf("setMetafield")) = Len(CreateMetafields)
        /\ resp.code \in 200..299
        /\ "inventory_error" \in DOMAIN resp.body
        /\ resp.body.status = "partial_success"

\* C9: the write-back follows the creation, records the product id and
\* clears 'Create in Shopify'; when it fails the failure is logged, the
\* caller still gets the product id with a non-error status, and the
\* response is downgraded to a warning.
C9_WriteBackFailureIsWarning ==
    /\ \A i \in CallsOf("airtableUpdate") :
          /\ CallsOf("createProduct") # {}
          /\ loc.create_code = 201
          /\ calls[i].args.ShopifyID = loc.product_id
          /\ calls[i].args.CreateInShopify = FALSE
    /\ (IsCreateReq(req) /\ pc = "done" /\ "Airtable update failed" \in log) =>
          /\ resp.code < 400
          /\ resp.body.shopify_id = loc.product_id
          /\ "warning" \in DOMAIN resp.body

\* A request C10 is about: no record id, no fields, or a required field
\* missing or empty.
InvalidCreateInput(r) ==
    /\ r.isObject
    /\ \/ ~Truthy(r.record_id)
       \/ r.fields.t \in {"absent", "null", "emptymap"}
       \/ /\ r.fields.t = "map"
          /\ \/ ~Truthy(r.fields.m.ProductName)
             \/ ~Truthy(r.fields.m.SKU)

\* C10 as stated: every such request is answered 400 before any call to an
\* external service.
C10_InvalidInputIs400 ==
    (IsCreateReq(req) /\ InvalidCreateInput(req)) =>
        /\ pc = "done"
        /\ resp.code = 400
        /\ calls = <<>>

\* C10 amended: every such request is rejected before any call to an
\* external service, with 400 when the required environment variables are
\* all set and with 500 when one of them is not.
C10_InvalidInputRejected ==
    (IsCreateReq(req) /\ InvalidCreateInput(req)) =>
        /\ pc = "done"
        /\ resp.code = IF MissingVars(env) = {} THEN 400 ELSE 500
        /\ calls = <<>>

\* C10 witness: a request without SKU was answered 400 with no call made.
C10_Witness ==
    /\ IsCreateReq(req) /\ req.isObject
    /\ req.fields.t = "map"
    /\ Truthy(req.record_id) /\ Truthy(req.fields.m.ProductName)
    /\ req.fields.m.SKU = Absent
    /\ pc = "done" /\ resp.code = 400 /\ calls = <<>>

\* A numeric input that is missing, blank or malformed: no value, or text
\* that does not denote a finite number.
MalformedNumber(raw) ==
    \/ raw.t \in {"absent", "null"}
    \/ /\ raw.t = "str"
       /\ \/ Strip(raw.s) = <<>>
          \/ ParseFloat(raw.s) \in {ParseError, NaN, Inf(TRUE), Inf(FALSE)}

\* C11: for every missing, blank or malformed quantity, weight or UAE price
\* the coerced value is 0, and the integer conversion of the quantity does
\* not raise: no NaN or None stands where a number is required.
C11_MalformedCoercesToZero ==
    (IsCreateReq(req) /\ loc # NoLoc) =>
        /\ MalformedNumber(req.fields.m.Qty) => loc.qty = PyInt(0)
        /\ MalformedNumber(req.fields.m.UAEPrice) => loc.price = PyInt(0)
        /\ MalformedNumber(req.fields.m.Weight) => loc.weight = PyInt(0)
        /\ ~IntRaises(loc.qty)

\* The ids of the locations the platform marks primary.
PrimaryLocationIds ==
    {locs[i].id : <<locs, i>> \in
        {x \in LocationLists \X (1..2) : x[2] <= Len(x[1]) /\ x[1][x[2]].primary}}

\* C12: every inventory write is one absolute set per request, and the
\* location written is the primary location of the store.
C12_InventoryAtPrimaryLocation ==
    /\ Cardinality(CallsOf("setInventory")) <= 1
    /\ \A i \in CallsOf("setInventory") :
          /\ "available" \in DOMAIN calls[i].args
          /\ calls[i].args.location_id \in PrimaryLocationIds

\* The product was created and the handler is past its inventory step.
CreatedPastInventory ==
    /\ IsCreateReq(req) /\ loc # NoLoc
    /\ loc.create_code = 201 /\ loc.product_id # 0
    /\ pc \in {"mf", "writeback", "done"}

\* v truncated towards zero is a.
TruncatesTo(v, a) ==
    IF v.n >= 0 THEN a * v.d <= v.n /\ v.n < (a + 1) * v.d
    ELSE (a - 1) * v.d < v.n /\ v.n <= a * v.d

\* C13 as stated: whenever the product was created, exactly one
\* inventory-set call went out for the new inventory item, with 'available'
\* equal to the requested quantity.
C13_OneInventorySetPerCreation ==
    CreatedPastInventory =>
        /\ Cardinality(CallsOf("setInventory")) = 1
        /\ \A i \in CallsOf("setInventory") :
              /\ calls[i].args.inventory_item_id = loc.inventory_item_id
              /\ PyInt(calls[i].args.available) = loc.qty

\* C13 amended: when the product was created and the location lookup gave a
\* location, at most one inventory-set call goes out, for the new inventory
\* item; exactly one when the coerced quantity is finite, with 'available'
\* the quantity truncated towards zero, and none when it is NaN or infinite.
\* A quantity of 0 is not skipped (draft, available 0) and a quantity of 5
\* gives active and available 5.
C13_InventorySetWhenLocated ==
    (CreatedPastInventory /\ loc.location_id # 0) =>
        /\ Cardinality(CallsOf("setInventory")) = IF IntRaises(loc.qty) THEN 0 ELSE 1
        /\ \A i \in CallsOf("setInventory") :
              /\ calls[i].args.inventory_item_id = loc.inventory_item_id
              /\ TruncatesTo(loc.qty, calls[i].args.available)
              /\ req.fields.m.Qty = JNum(PyInt(0)) =>
                    calls[i].args.available = 0 /\ loc.status = "draft"
              /\ req.fields.m.Qty = JNum(PyInt(5)) =>
                    calls[i].args.available = 5 /\ loc.status = "active"

\* C13 witness: a quantity of 0 was set as available 0 on a draft product.
C13_Witness ==
    /\ CreatedPastInventory /\ loc.location_id # 0
    /\ req.fields.m.Qty = JNum(PyInt(0))
    /\ loc.status = "draft"
    /\ \E i \in CallsOf("setInventory") : calls[i].args.available = 0

(***************************************************************************)
(* handle_airtable_webhook                                                 *)
(***************************************************************************)
\* WEBHOOK_SECRET, and what a caller may put in X-Secret-Token.
WEBHOOK_SECRET == JStr(<<"k", "e", "y">>)
SecretHeaders == {Absent, JStr(<<"b", "a", "d">>), WEBHOOK_SECRET}

\* The flat field map of POST /airtable-webhook.
WebhookPayloads ==
    [ SKU : {Absent, Empty, SkuP100},
      UAEPrice : {Absent, JNum(PyInt(100))},
      AsiaPrice : {Garbage, JStr(<<"5", "5">>)},
      AmericaPrice : {Blank, JNum(PyInt(0))},
      UAEComparePrice : {Absent, JNum(PyInt(0)), JNum(PyInt(120))},
      Qty : {Absent, Blank, Garbage, JNum(PyInt(0)), JNum(PyInt(5))},
      Title : {Absent, JStr(<<"T">>)},
      Barcode : {Absent, JStr(<<"B">>)},
      Size : {Absent, Blank, JStr(<<"1", "0", "0", "m", "l">>)} ]

WebhookRequests ==
    { [secret |-> h, data |-> d] :
        h \in SecretHeaders,
        d \in WebhookPayloads }

IsWebhookReq(r) == "secret" \in DOMAIN r

\* The markets in the order the handler walks its prices dict, and the
\* price list of each (PRICE_LIST_IDS).
Regions == <<"UAE", "Asia", "America">>
PRICE_LIST_IDS ==
    [ UAE |-> "gid://shopify/PriceList/31168201019",
      Asia |-> "gid://shopify/PriceList/31168266555",
      America |-> "gid://shopify/PriceList/31168233787" ]

\* bool(x) of a Python number or None.
PyTruthy(v) == ~(v.k = "none" \/ (v.k = "fin" /\ v.n = 0))

\* The mutant of Authorized: a request without the header is let in.
AuthorizedOrNoHeader(h) == h = Absent \/ h = WEBHOOK_SECRET

\* secret != WEBHOOK_SECRET -> 401
Authorized(h) == h = WEBHOOK_SECRET

\* The locals of handle_airtable_webhook after the payload is parsed
\* (lines 39-49).
WebhookLocals(d) ==
    [ sku |-> GetNone(d.SKU),
      prices |-> [ UAE |-> ToNumberUtils(d.UAEPrice),
                   Asia |-> ToNumberUtils(d.AsiaPrice),
                   America |-> ToNumberUtils(d.AmericaPrice) ],
      uae_compare_price |-> ToNumberUtils(d.UAEComparePrice),
      qty_abs |-> ToNumberUtils(d.Qty),
      title |-> GetNone(d.Title),
      barcode |-> GetNone(d.Barcode),
      size_value |-> GetNone(d.Size),
      nodes |-> -1,
      graphql |-> "none",
      found_sku |-> PyNone,
      variant_gid |-> 0,
      product_gid |-> 0,
      inventory_item_id |-> 0,
      loc_id |-> 0,
      inventory_update |-> "None",
      inventory_error |-> "None",
      price_updates |-> [r \in {"UAE", "Asia", "America"} |-> "unset"],
      region |-> 1,
      mf_failed |-> FALSE ]

Unauthorized == Response(401, ErrorBody("Unauthorized"))
\* The outer except: 500 with the message of the exception, here the name
\* of the call that raised it.
Fatal(op) == Response(500, ErrorBody(op))

\* Lines 24-62: the secret is compared first; then the payload is parsed and
\* a request without SKU is refused.
WebhookReceive ==
    /\ pc = "idle"
    /\ nreq < MaxRequests
    /\ \E r \in WebhookRequests :
        /\ req' = r
        /\ IF ~Authorized(r.secret)
           THEN /\ resp' = Unauthorized
                /\ loc' = NoLoc
                /\ pc' = "done"
           ELSE IF ~Truthy(GetNone(r.data.SKU))
           THEN /\ resp' = Response(400, ErrorBody("SKU missing"))
                /\ loc' = WebhookLocals(r.data)
                /\ pc' = "done"
           ELSE /\ resp' = NoResp
                /\ loc' = WebhookLocals(r.data)
                /\ pc' = "w_find"
    /\ nreq' = nreq + 1
    /\ calls' = <<>>
    /\ log' = {}
    /\ UNCHANGED <<env, airtable, created, resend, webVars>>

\* The handler ends with 500 on an exception no inner try catches.
\* The steps of handle_airtable_webhook that follow the variant lookup, in
\* the order of the code: variant details, product title, default price
\* (steps 2 and 3), size metafield (step 4), inventory (step 5), price
\* lists (step 6).
WebhookOrderInventoryFirst ==
    <<"w_details", "w_title", "w_price", "w_location", "w_mf", "w_pricelists">>
WebhookOrder ==
    <<"w_details", "w_title", "w_price", "w_mf", "w_location", "w_pricelists">>

\* The step the handler goes to when 'step' is over.
Following(step) ==
    WebhookOrder[(CHOOSE i \in 1..Len(WebhookOrder) : WebhookOrder[i] = step) + 1]

Raise(op) ==
    /\ resp' = Fatal(op)
    /\ pc' = "done"

\* The mutant of VariantFound: an empty result is not told from a variant.
VariantFoundAlways(nodes) == TRUE

\* if not nodes: return None, None, None, None;  if not variant_gid: 404
VariantFound(nodes) == nodes # <<>>

\* How the platform may answer one GraphQL request: 200, the rate-limit
\* status 429, another error status, or no answer (transport failure).
GraphqlAnswers == {"ok", "rate_limited", "http_error", "transport"}

\* shopify_graphql: one requests.post; the exception of requests and
\* raise_for_status leave the function.
ShopifyGraphqlRaises(answer) == answer # "ok"

\* What productVariants(first: 1, query: $sku) may hold: the query is a
\* search over the variants, so the first node is the variant with that
\* SKU or another variant the search matched; or there is no node.
VariantNode(id, sku) == [id |-> id, product |-> id, sku |-> sku]
VariantNodes(sku) ==
    { <<>>,
      <<VariantNode(1, sku)>>,
      <<VariantNode(2, JStr(sku.s \o <<"-", "B">>))>> }

\* Step 1, get_variant_product_and_inventory_by_sku, the GraphQL search: no
\* node is the 404 answer, else nodes[0] is taken; an HTTP error raises.
WebhookFindVariant ==
    /\ pc = "w_find"
    /\ calls' = Append(calls, Call("findVariant", [sku |-> loc.sku]))
    /\ \E answer \in GraphqlAnswers :
         IF ShopifyGraphqlRaises(answer)
         THEN /\ Raise("findVariant")
              /\ loc' = [loc EXCEPT !.graphql = answer]
         ELSE \E nodes \in VariantNodes(loc.sku) :
            IF ~VariantFound(nodes)
            THEN /\ resp' = Response(404, ErrorBody("Variant not found"))
                 /\ pc' = "done"
                 /\ loc' = [loc EXCEPT !.nodes = Len(nodes), !.graphql = answer]
            ELSE IF nodes = <<>>
            THEN \* nodes[0] of an empty list raises
                 /\ Raise("findVariant")
                 /\ loc' = [loc EXCEPT !.nodes = Len(nodes), !.graphql = answer]
            ELSE /\ loc' = [loc EXCEPT !.nodes = Len(nodes),
                                       !.graphql = answer,
                                       !.found_sku = nodes[1].sku,
                                       !.variant_gid = nodes[1].id,
                                       !.product_gid = nodes[1].product]
                 /\ pc' = "w_variant"
                 /\ UNCHANGED resp
    /\ UNCHANGED <<req, log, nreq, env, airtable, created, resend, webVars>>

\* Step 1, the REST read of the variant's inventory item.
WebhookGetVariant ==
    /\ pc = "w_variant"
    /\ calls' = Append(calls, Call("getVariant", [variant |-> loc.variant_gid]))
    /\ \/ Raise("getVariant") /\ UNCHANGED loc
       \/ /\ loc' = [loc EXCEPT !.inventory_item_id = loc.variant_gid]
          /\ pc' = WebhookOrder[1]
          /\ UNCHANGED resp
    /\ UNCHANGED <<req, log, nreq, env, airtable, created, resend, webVars>>

\* Step 2, update_variant_details: only with a title or a barcode.
WebhookUpdateDetails ==
    /\ pc = "w_details"
    /\ IF Truthy(loc.title) \/ Truthy(loc.barcode)
       THEN /\ calls' = Append(calls,
                  Call("updateVariantDetails",
                       [variant |-> loc.variant_gid, title |-> loc.title,
                        barcode |-> loc.barcode]))
            /\ \/ Raise("updateVariantDetails")
               \/ pc' = Following("w_details") /\ UNCHANGED resp
       ELSE /\ pc' = Following("w_details")
            /\ UNCHANGED <<calls, resp>>
    /\ UNCHANGED <<req, loc, log, nreq, env, airtable, created, resend, webVars>>

\* Step 2, update_product_title: only with a title.
WebhookUpdateTitle ==
    /\ pc = "w_title"
    /\ IF Truthy(loc.title)
       THEN /\ calls' = Append(calls,
                  Call("updateProductTitle",
                       [product |-> loc.product_gid, title |-> loc.title]))
            /\ \/ Raise("updateProductTitle")
               \/ pc' = Following("w_title") /\ UNCHANGED resp
       ELSE /\ pc' = Following("w_title")
            /\ UNCHANGED <<calls, resp>>
    /\ UNCHANGED <<req, loc, log, nreq, env, airtable, created, resend, webVars>>

\* Step 3, update_variant_default_price: only with a UAE price.
WebhookUpdateDefaultPrice ==
    /\ pc = "w_price"
    /\ IF loc.prices.UAE # PyNone
       THEN /\ calls' = Append(calls,
                  Call("updateDefaultPrice",
                       [variant |-> loc.variant_gid, price |-> loc.prices.UAE,
                        compare_at_price |-> loc.uae_compare_price]))
            /\ \/ Raise("updateDefaultPrice")
               \/ pc' = Following("w_price") /\ UNCHANGED resp
       ELSE /\ pc' = Following("w_price")
            /\ UNCHANGED <<calls, resp>>
    /\ UNCHANGED <<req, loc, log, nreq, env, airtable, created, resend, webVars>>

\* shopify_utils.set_metafield returns the JSON of shopify_graphql, which
\* raises on a transport error or a non-2xx status (raise_for_status).
SetMetafieldUtilsRaises(outcome) == outcome \in {"transport", "http"}

\* Step 4, the size metafield: only with a non-blank size.  The returned
\* JSON (errors, userErrors) is not looked at.
WebhookSetMetafield ==
    /\ pc = "w_mf"
    /\ IF loc.size_value # JNull /\ Strip(loc.size_value.s) # <<>>
       THEN /\ calls' = Append(calls,
                  Call("setMetafield", Metafield("variant", "custom", "size")))
            /\ \E outcome \in MetafieldOutcomes :
                /\ loc' = [loc EXCEPT !.mf_failed = outcome # "ok"]
                /\ IF SetMetafieldUtilsRaises(outcome)
                   THEN Raise("setMetafield")
                   ELSE pc' = Following("w_mf") /\ UNCHANGED resp
       ELSE /\ pc' = Following("w_mf")
            /\ UNCHANGED <<calls, resp, loc>>
    /\ UNCHANGED <<req, log, nreq, env, airtable, created, resend, webVars>>

\* primary = next((l for l in locs if l.get("primary")), None)
\* chosen = primary or locs[0]
ChosenLocation(locs) ==
    IF \E i \in 1..Len(locs) : locs[i].primary
    THEN locs[CHOOSE i \in 1..Len(locs) :
                /\ locs[i].primary
                /\ \A j \in 1..(i - 1) : ~locs[j].primary].id
    ELSE locs[1].id

\* The mutant of QuantityGiven: a quantity of 0 counts as no quantity.
QuantityGivenIfTruthy(qty) == PyTruthy(qty)

\* if qty_abs is not None
QuantityGiven(qty) == qty # PyNone

\* Step 5, get_primary_location_id, run only with a quantity: the configured
\* location, else the cached one, else GET locations.json, whose answer is
\* cached.  An error or an empty list is caught as the inventory error.
WebhookGetLocation ==
    /\ pc = "w_location"
    /\ IF ~QuantityGiven(loc.qty_abs)
       THEN /\ pc' = Following("w_location")
            /\ UNCHANGED <<loc, calls, webVars>>
       ELSE IF PREFERRED_LOCATION_ID # 0
       THEN /\ loc' = [loc EXCEPT !.loc_id = PREFERRED_LOCATION_ID]
            /\ pc' = "w_inventory"
            /\ UNCHANGED <<calls, webVars>>
       ELSE IF CACHED_PRIMARY_LOCATION_ID # 0
       THEN /\ loc' = [loc EXCEPT !.loc_id = CACHED_PRIMARY_LOCATION_ID]
            /\ pc' = "w_inventory"
            /\ UNCHANGED <<calls, webVars>>
       ELSE /\ calls' = Append(calls, Call("getLocations", [via |-> "rest"]))
            /\ \/ \E locs \in LocationLists :
                    /\ CACHED_PRIMARY_LOCATION_ID' = ChosenLocation(locs)
                    /\ loc' = [loc EXCEPT !.loc_id = ChosenLocation(locs)]
                    /\ pc' = "w_inventory"
                    /\ UNCHANGED <<PREFERRED_LOCATION_ID, CACHED_PRICE_LISTS>>
               \/ \* raise_for_status raises, or locs[0] of an empty list
                  /\ loc' = [loc EXCEPT !.inventory_error = "exception"]
                  /\ pc' = Following("w_location")
                  /\ UNCHANGED webVars
    /\ UNCHANGED <<req, log, resp, nreq, env, airtable, created, resend>>

\* Step 5, set_inventory_absolute: the stock is set to int(quantity) at the
\* location.  An exception, or an answer holding 'error' or 'errors', is
\* the inventory error.
WebhookSetInventory ==
    /\ pc = "w_inventory"
    /\ IF IntRaises(loc.qty_abs)
       THEN /\ loc' = [loc EXCEPT !.inventory_error = "exception"]
            /\ UNCHANGED calls
       ELSE /\ calls' = Append(calls,
                  Call("setInventory",
                       [location_id |-> loc.loc_id,
                        inventory_item_id |-> loc.inventory_item_id,
                        available |-> IntOf(loc.qty_abs)]))
            /\ \/ loc' = [loc EXCEPT !.inventory_update = "level"]
               \/ loc' = [loc EXCEPT !.inventory_update = "errors",
                                     !.inventory_error = "errors"]
               \/ loc' = [loc EXCEPT !.inventory_error = "exception"]
    /\ pc' = Following("w_location")
    /\ UNCHANGED <<req, log, resp, nreq, env, airtable, created, resend, webVars>>

\* The mutant of PriceWritten: a price of 0 counts as no price.
PriceWrittenIfTruthy(amount) == PyTruthy(amount)

\* if amount is None: continue
PriceWritten(amount) == amount # PyNone

\* compare_amt = uae_compare_price if key == "UAE" else None, and it is sent
\* only when truthy.
CompareSent(key, compare) ==
    IF key = "UAE" /\ PyTruthy(compare) THEN compare ELSE PyNone

\* How one priceListFixedPricesAdd request can end: a body without or with
\* userErrors, or shopify_graphql raising.
PriceListOutcomes == {"ok", "userErrors", "raise"}

\* Step 6, one turn of the loop over the markets: a market without price is
\* skipped; the others get one priceListFixedPricesAdd call whose JSON is
\* kept.  shopify_graphql raising is caught nowhere in the loop.
WebhookPriceList ==
    /\ pc = "w_pricelists"
    /\ LET key == Regions[loc.region]
           amount == loc.prices[key]
           next == IF loc.region = Len(Regions) THEN "w_respond" ELSE "w_pricelists"
       IN  IF ~PriceWritten(amount)
           THEN /\ loc' = [loc EXCEPT !.region = @ + 1]
                /\ pc' = next
                /\ UNCHANGED <<calls, resp>>
           ELSE /\ calls' = Append(calls,
                      Call("priceListAdd",
                           [region |-> key, price_list |-> PRICE_LIST_IDS[key],
                            amount |-> amount, currency |-> "AED",
                            compare |-> CompareSent(key, loc.uae_compare_price)]))
                /\ \E outcome \in PriceListOutcomes :
                     IF outcome = "raise"
                     THEN Raise("priceListAdd") /\ UNCHANGED loc
                     ELSE /\ loc' = [loc EXCEPT !.region = @ + 1,
                                                !.price_updates[key] = outcome]
                          /\ pc' = next
                          /\ UNCHANGED resp
    /\ UNCHANGED <<req, log, nreq, env, airtable, created, resend, webVars>>

\* The final response of handle_airtable_webhook (lines 239-258).
WebhookResult(l) ==
    LET body == [ status |-> "success",
                  variant_id |-> l.variant_gid,
                  product_id |-> l.product_gid,
                  inventory_update |-> l.inventory_update,
                  price_list_updates |-> l.price_updates ]
    IN  IF l.inventory_error # "None"
        THEN Response(200, [ status |-> "partial_success",
                             variant_id |-> l.variant_gid,
                             product_id |-> l.product_gid,
                             inventory_update |-> l.inventory_update,
                             price_list_updates |-> l.price_updates,
                             inventory_error |-> l.inventory_error ])
        ELSE Response(200, body)

WebhookRespond ==
    /\ pc = "w_respond"
    /\ resp' = WebhookResult(loc)
    /\ pc' = "done"
    /\ UNCHANGED <<req, loc, calls, log, nreq, env, airtable, created, resend,
                   webVars>>

\* SHOPIFY_LOCATION_ID as deployed: unset, or a location id.
PreferredLocations == {0, 7}

InitWebhook ==
    /\ InitCommon
    /\ env = RequiredVars
    /\ airtable = "client"
    /\ resend = NoReq
    /\ PREFERRED_LOCATION_ID \in PreferredLocations
    /\ CACHED_PRIMARY_LOCATION_ID = 0

NextWebhook ==
    \/ WebhookReceive
    \/ WebhookFindVariant
    \/ WebhookGetVariant
    \/ WebhookUpdateDetails
    \/ WebhookUpdateTitle
    \/ WebhookUpdateDefaultPrice
    \/ WebhookSetMetafield
    \/ WebhookGetLocation
    \/ WebhookSetInventory
    \/ WebhookPriceList
    \/ WebhookRespond
    \/ Finish

SpecWebhook == InitWebhook /\ [][NextWebhook]_vars

\* Both routes of the application (src/app.py).
Init ==
    /\ InitCommon
    /\ \E c \in EnvConfigs : env = c.env /\ airtable = c.airtable
    /\ resend = NoReq
    /\ PREFERRED_LOCATION_ID \in PreferredLocations
    /\ CACHED_PRIMARY_LOCATION_ID = 0

Next == NextCreate \/ NextWebhook

Spec == Init /\ [][Next]_vars

(***************************************************************************)
(* Properties of handle_airtable_webhook.                                  *)
(***************************************************************************)
Mutations ==
    {"updateVariantDetails", "updateProductTitle", "updateDefaultPrice",
     "setMetafield", "setInventory", "priceListAdd"}

\* C2: a request whose X-Secret-Token is absent or differs from
\* WEBHOOK_SECRET is answered 401 and no downstream call is made.
C2_BadSecretIs401 ==
    (IsWebhookReq(req) /\ req.secret # WEBHOOK_SECRET) =>
        /\ pc = "done"
        /\ resp.code = 401
        /\ calls = <<>>

\* C2 witness: a request without the header was answered 401.
C2_Witness ==
    /\ IsWebhookReq(req) /\ req.secret = Absent
    /\ Truthy(req.data.SKU)
    /\ pc = "done" /\ resp.code = 401

\* C3: when the variant lookup of an authenticated request finds no variant
\* the answer is 404 and the lookup is the only call made: no field, price,
\* metafield, inventory or price-list write.
C3_UnknownSkuIs404 ==
    (IsWebhookReq(req) /\ loc # NoLoc /\ loc.nodes = 0) =>
        /\ pc = "done"
        /\ resp.code = 404
        /\ \A i \in 1..Len(calls) : calls[i].op \notin Mutations
        /\ calls = <<Call("findVariant", [sku |-> loc.sku])>>

\* C3 witness: the lookup came back empty for a request that carries a
\* title, a price and a quantity, and the answer was 404.
C3_Witness ==
    /\ IsWebhookReq(req) /\ loc # NoLoc /\ loc.nodes = 0
    /\ Truthy(loc.title) /\ loc.prices.UAE # PyNone /\ loc.qty_abs # PyNone
    /\ pc = "done" /\ resp.code = 404

\* A price-list write of the request failed: shopify_graphql raised, or the
\* answer holds userErrors.
PriceListWriteFailed ==
    \/ resp = Fatal("priceListAdd")
    \/ \E k \in DOMAIN loc.price_updates : loc.price_updates[k] = "userErrors"

\* C7: when the price-list write of one region fails the other regions with
\* a price are still written, the inventory set is done, and the answer is
\* the 200 result carrying the failing region's error.
C7_PriceListFailureIsolated ==
    (IsWebhookReq(req) /\ pc = "done" /\ loc # NoLoc /\ loc.nodes = 1
        /\ PriceListWriteFailed) =>
        /\ \A k \in DOMAIN loc.prices :
              loc.prices[k] # PyNone =>
                 \E i \in CallsOf("priceListAdd") : calls[i].args.region = k
        /\ (loc.qty_abs # PyNone /\ loc.inventory_error = "None") =>
              CallsOf("setInventory") # {}
        /\ resp.code = 200
        /\ "price_list_updates" \in DOMAIN resp.body

\* C8: a failed metafield write never ends the request, in either handler:
\* after it no failure response is produced, and the request ends only with
\* the handler's final result.
C8_MetafieldFailureNeverAborts ==
    (loc # NoLoc /\ loc.mf_failed /\ calls # <<>>
        /\ calls[Len(calls)].op = "setMetafield") =>
        /\ resp.code < 500
        /\ pc = "done" => resp.code \in {200, 201}

\* The handler went through its whole price loop and answered.
WebhookAnswered ==
    /\ IsWebhookReq(req) /\ loc # NoLoc
    /\ pc = "done" /\ resp.code = 200

\* C14: in an answered request a market's price list is written if and
\* only if the input carries a non-null price for that market, each such
\* write goes to the market's own price list, and the UAE write carries the
\* comparison price whenever the input holds one.
C14_PriceWrittenIffPresent ==
    WebhookAnswered =>
        /\ \A k \in DOMAIN loc.prices :
              (\E i \in CallsOf("priceListAdd") : calls[i].args.region = k)
                 <=> loc.prices[k] # PyNone
        /\ \A i \in CallsOf("priceListAdd") :
              /\ calls[i].args.price_list = PRICE_LIST_IDS[calls[i].args.region]
              /\ calls[i].args.amount = loc.prices[calls[i].args.region]
              /\ calls[i].args.region = "UAE" =>
                    calls[i].args.compare = loc.uae_compare_price

\* The inventory step of the request failed.
InventoryStepFailed ==
    /\ IsWebhookReq(req) /\ loc # NoLoc
    /\ loc.inventory_error # "None"

\* C15: when the inventory step failed the price step is still run and the
\* answer is 200 'partial_success' with the inventory error; a 200 answer
\* says 'success' exactly when no inventory error was recorded.
C15_InventoryFailureIsPartialSuccess ==
    /\ (InventoryStepFailed /\ pc = "done") =>
          /\ resp.code = 200
          /\ resp.body.status = "partial_success"
          /\ "inventory_error" \in DOMAIN resp.body
          /\ loc.region = Len(Regions) + 1
    /\ WebhookAnswered =>
          (resp.body.status = "success" <=> loc.inventory_error = "None")

(***************************************************************************)
(* generate_description_from_web   POST /generate                          *)
(*                                 (src/description_agent.py, src/app.py)  *)
(*                                                                         *)
(* Text is a sequence of tokens: the symbols "<", ">", "/", "&", "-",      *)
(* " " and "\n", words (runs of letters and digits), and attribute text.   *)
(***************************************************************************)
Words ==
    {"script", "SCRIPT", "style", "p", "b", "div", "h2", "a", "alert", "text",
     "more", "Oud", "oud", "Tom", "tom", "Ford", "ford", "and"}

\* str.lower() of a token.
Lower(t) ==
    CASE t = "SCRIPT" -> "script"
      [] t = "Oud" -> "oud"
      [] t = "Tom" -> "tom"
      [] t = "Ford" -> "ford"
      [] OTHER -> t

\* \s of the regular expressions, and what str.strip() removes.
IsSpace(t) == t \in {" ", "\n"}

\* The first index after 'from' that holds the token t, 0 when there is none.
FirstAt(s, from, t) ==
    IF \E i \in (from + 1)..Len(s) : s[i] = t
    THEN CHOOSE i \in (from + 1)..Len(s) :
            s[i] = t /\ \A j \in (from + 1)..(i - 1) : s[j] # t
    ELSE 0

\* CONFIG["allowed_tags"]
AllowedTags == {"h2", "h3", "p", "ul", "li", "strong", "a"}

\* (?i)<(script|style)[^>]*>.*?</\1> matched at the head of s: the index of
\* the last token of the match, 0 when it does not match there.  The dot
\* does not match a line break.
ScriptBlockEnd(s) ==
    IF Len(s) >= 2 /\ s[1] = "<" /\ Lower(s[2]) \in {"script", "style"}
    THEN LET g == FirstAt(s, 2, ">")
             closes == {k \in (g + 1)..(Len(s) - 3) :
                          /\ s[k] = "<" /\ s[k + 1] = "/"
                          /\ Lower(s[k + 2]) = Lower(s[2])
                          /\ s[k + 3] = ">"
                          /\ \A j \in (g + 1)..(k - 1) : s[j] # "\n"}
         IN  IF g = 0 \/ closes = {} THEN 0
             ELSE (CHOOSE k \in closes : \A k2 \in closes : k <= k2) + 3
    ELSE 0

\* re.sub of the script/style pattern by "": matches are taken left to
\* right and do not overlap.
RECURSIVE StripScriptBlocks(_)
StripScriptBlocks(s) ==
    IF s = <<>> THEN <<>>
    ELSE IF ScriptBlockEnd(s) # 0
         THEN StripScriptBlocks(SubSeq(s, ScriptBlockEnd(s) + 1, Len(s)))
         ELSE <<Head(s)>> \o StripScriptBlocks(Tail(s))

\* (?i)</?([a-z0-9]+)([^>]*)> matched at the head of s: where the name
\* stands and where the match ends; end 0 when it does not match there.
TagAt(s) ==
    LET n == IF Len(s) >= 2 /\ s[2] = "/" THEN 3 ELSE 2
        g == FirstAt(s, n, ">")
    IN  IF Len(s) >= n /\ s[1] = "<" /\ s[n] \in Words /\ g # 0
        THEN [name |-> Lower(s[n]), end |-> g]
        ELSE [name |-> "", end |-> 0]

\* replace_disallowed: the tag stays when its name is allowed.
ReplaceDisallowed(tag) == tag \in AllowedTags

\* re.sub of the tag pattern by replace_disallowed.
RECURSIVE StripTags(_)
StripTags(s) ==
    IF s = <<>> THEN <<>>
    ELSE LET m == TagAt(s)
         IN  IF m.end # 0
             THEN (IF ReplaceDisallowed(m.name) THEN SubSeq(s, 1, m.end) ELSE <<>>)
                     \o StripTags(SubSeq(s, m.end + 1, Len(s)))
             ELSE <<Head(s)>> \o StripTags(Tail(s))

\* The tokens of s from index i on, with leading \s* skipped.
RECURSIVE SkipSpace(_, _)
SkipSpace(s, i) ==
    IF i <= Len(s) /\ IsSpace(s[i]) THEN SkipSpace(s, i + 1) ELSE i

\* s holds the tokens of t at index i, letter case ignored.
HoldsAt(s, i, t) ==
    /\ i + Len(t) - 1 <= Len(s)
    /\ \A j \in 1..Len(t) : Lower(s[i + j - 1]) = Lower(t[j])

\* re.search(rf"(?i)<h2>\s*{re.escape(perfume_name)}\s*</h2>", html_text)
HasHeading(s, name) ==
    \E i \in 1..Len(s) :
        /\ HoldsAt(s, i, <<"<", "h2", ">">>)
        /\ LET a == SkipSpace(s, i + 3)
           IN  /\ HoldsAt(s, a, name)
               /\ HoldsAt(s, SkipSpace(s, a + Len(name)), <<"<", "/", "h2", ">">>)

\* f"<h2>{perfume_name}</h2>\n"
Heading(name) == <<"<", "h2", ">">> \o name \o <<"<", "/", "h2", ">", "\n">>

\* _sanitize_html
SanitizeHtml(html_text, perfume_name) ==
    LET t == StripTags(StripScriptBlocks(html_text))
    IN  IF HasHeading(t, perfume_name) THEN t ELSE Heading(perfume_name) \o t

\* str.strip() of a text.
RECURSIVE StripText(_)
StripText(s) ==
    IF s # <<>> /\ IsSpace(Head(s)) THEN StripText(Tail(s))
    ELSE IF s # <<>> /\ IsSpace(s[Len(s)]) THEN StripText(SubSeq(s, 1, Len(s) - 1))
    ELSE s

\* str.split(): the words between runs of whitespace.
RECURSIVE Split(_)
Split(s) ==
    LET t == StripText(s)
        cut == {i \in 1..Len(t) : IsSpace(t[i])}
    IN  IF t = <<>> THEN <<>>
        ELSE IF cut = {} THEN <<t>>
        ELSE LET i == CHOOSE i \in cut : \A j \in cut : i <= j
             IN  <<SubSeq(t, 1, i - 1)>> \o Split(SubSeq(t, i + 1, Len(t)))

\* _brand_slug: lower case, "&" and "+" become "and", what is neither a
\* word character, whitespace nor a hyphen is dropped, every run of
\* whitespace and hyphens becomes one hyphen, and outer hyphens are cut.
RECURSIVE Hyphenate(_)
Hyphenate(s) ==
    IF s = <<>> THEN <<>>
    ELSE IF IsSpace(Head(s)) \/ Head(s) = "-"
         THEN LET rest == Hyphenate(Tail(s))
              IN  IF rest # <<>> /\ Head(rest) = "-" THEN rest ELSE <<"-">> \o rest
         ELSE <<Head(s)>> \o Hyphenate(Tail(s))

RECURSIVE StripHyphens(_)
StripHyphens(s) ==
    IF s # <<>> /\ Head(s) = "-" THEN StripHyphens(Tail(s))
    ELSE IF s # <<>> /\ s[Len(s)] = "-" THEN StripHyphens(SubSeq(s, 1, Len(s) - 1))
    ELSE s

BrandSlug(brand_name) ==
    IF brand_name = <<>> THEN <<"fragrances">>
    ELSE LET low == [i \in 1..Len(StripText(brand_name)) |->
                        LET t == Lower(StripText(brand_name)[i])
                        IN  IF t \in {"&", "+"} THEN "and" ELSE t]
             kept == SelectSeq(low, LAMBDA t : t \in Words \/ IsSpace(t) \/ t = "-")
         IN  StripHyphens(Hyphenate(kept))

(***************************************************************************)
(* The research stage: fetch_notes_with_fallback.                          *)
(***************************************************************************)
\* A cited source: the URL scheme it starts with (none for bare text) and
\* the tokens of the rest.
Source(scheme, rest) == [scheme |-> scheme, rest |-> rest]
SrcFragrantica == Source("https://", <<"www.", "fragrantica.com", "/", "oud">>)
SrcLookalike == Source("https://", <<"not", "fragrantica.com", "/", "oud">>)
SrcBlog == Source("https://", <<"blog.example", "/", "oud">>)
SrcBare == Source("", <<"fragrantica.com", "/", "oud">>)

\* Items of a note list as the API may send them: a usable note, a blank
\* string, or something that is not a string.
NoteItems == {"note", "blank", "nonstr"}

\* _clean_notes_list(...)[:8]: strings that are not blank stay, at most 8.
MaxNotesPerTier == 8
CleanNotes(notes) ==
    LET kept == SelectSeq(notes, LAMBDA n : n = "note")
    IN  SubSeq(kept, 1, IF Len(kept) < MaxNotesPerTier THEN Len(kept)
                        ELSE MaxNotesPerTier)

\* _clean_sources_list(...)[:3]: sources that start with http(s)://, at
\* most 3.
MaxSources == 3
CleanSources(sources) ==
    LET kept == SelectSeq(sources, LAMBDA x : x.scheme \in {"http://", "https://"})
    IN  SubSeq(kept, 1, IF Len(kept) < MaxSources THEN Len(kept) ELSE MaxSources)

\* empty_result()
EmptyResult == [top |-> <<>>, heart |-> <<>>, base |-> <<>>, sources |-> <<>>]

\* cleaned_result of _fetch_with_perplexity (lines 107-112).
CleanedResult(obj) ==
    [ top |-> CleanNotes(obj.top), heart |-> CleanNotes(obj.heart),
      base |-> CleanNotes(obj.base), sources |-> CleanSources(obj.sources) ]

\* _has_meaningful_notes: at least 3 notes in total.
MinNotes == 3
HasMeaningfulNotes(result) ==
    Len(result.top) + Len(result.heart) + Len(result.base) >= MinNotes

\* _has_reliable_sources: some source holds the text of a reliable domain
\* anywhere in it (domain in source.lower()).
ReliableDomains ==
    {"fragrantica.com", "parfumo.net", "basenotes.net", "theluxuryconcepts.com"}
HasReliableSources(result) ==
    \E i \in 1..Len(result.sources) :
        \E j \in 1..Len(result.sources[i].rest) :
            Lower(result.sources[i].rest[j]) \in ReliableDomains

\* What the research API may answer with as the JSON of the message: 3
\* notes with a reliable source among others, with a source elsewhere, with
\* a source that only holds a reliable domain's name, with a source that is
\* not a URL; 2 notes with a reliable source; 3 notes over two tiers with no
\* source; nothing at all.
ThreeNotes == <<"note", "note", "nonstr", "note">>
ResearchObject(top, base, sources) ==
    [top |-> top, heart |-> <<>>, base |-> base, sources |-> sources]
ResearchObjects ==
    { ResearchObject(ThreeNotes, <<>>, <<SrcBlog, SrcFragrantica>>),
      ResearchObject(ThreeNotes, <<>>, <<SrcBlog>>),
      ResearchObject(ThreeNotes, <<>>, <<SrcLookalike>>),
      ResearchObject(ThreeNotes, <<>>, <<SrcBare>>),
      ResearchObject(<<"note", "blank", "note">>, <<>>, <<SrcFragrantica>>),
      ResearchObject(<<"note", "blank", "note">>, <<"note">>, <<>>),
      ResearchObject(<<>>, <<>>, <<>>) }

\* How one call of _fetch_with_perplexity can end before there is a result:
\* requests.post raises, the status is not 200, the body is not JSON
\* (resp.json() raises), the JSON has an unexpected shape, or the message
\* is not JSON (json.loads raises).
FetchFailures == {"transport", "status", "body_not_json", "shape", "content_not_json"}

\* The 'except json.JSONDecodeError' branch prints 'text', which is unbound
\* when resp.json() raised: the function raises UnboundLocalError.  When the
\* decoder's error is not a json.JSONDecodeError (simplejson installed) the
\* generic branch returns the empty result.
FetchRaises(failure, stdlibJson) == failure = "body_not_json" /\ stdlibJson

\* if _has_meaningful_notes(sonar_result) and _has_reliable_sources(sonar_result)
SonarAccepted(result) == HasMeaningfulNotes(result) /\ HasReliableSources(result)

\* Lines 49-57: the stronger model's result is used when it has notes,
\* with or without reliable sources; else the empty result.
ProChoice(result) == IF HasMeaningfulNotes(result) THEN result ELSE EmptyResult

(***************************************************************************)
(* The handler of POST /generate and generate_description_from_web.        *)
(***************************************************************************)
\* The body of POST /generate.
NameOudWords == JStr(<<"Oud">>)
BrandTomFord == JStr(<<"Tom", " ", "Ford">>)
DescribeRequests ==
    { [perfume_name |-> n, brand_name |-> b] :
        n \in {Absent, Empty, NameOudWords},
        b \in {Absent, BrandTomFord} }

IsDescribeReq(r) == "perfume_name" \in DOMAIN r

\* CONFIG["max_retries"]: attempts of the retry decorator.
MaxRetries == 3

\* HTML the creator model may answer with, for the name and slug it was
\* given: the full structure; no link; no heading and no link; a script
\* block on one line; a script block over several lines; a tag inside a
\* tag; tags that are not allowed.
Para == <<"<", "p", ">", "text", "<", "/", "p", ">">>
CollectionLink(slug) ==
    <<"<", "p", ">", "more", " ", "<", "a", " ", "href=/collections/">> \o slug
        \o <<">", "more", "<", "/", "a", ">", "<", "/", "p", ">">>
Drafts(name, slug) ==
    { Heading(name) \o Para \o CollectionLink(slug),
      Heading(name) \o Para,
      Para \o <<"\n">>,
      <<"<", "script", ">", "alert", "<", "/", "script", ">">> \o Para
          \o CollectionLink(slug),
      <<"<", "SCRIPT", ">", "\n", "alert", "\n", "<", "/", "script", ">">> \o Para,
      <<"<", "<", "b", ">", "script", ">", "alert", "<", "/", "script", ">">>,
      <<"<", "div", ">">> \o Para \o <<"<", "/", "div", ">">> \o CollectionLink(slug) }

\* How the validator call can end: the API raises (error, rate limit,
\* timeout), the message is not JSON, or it is JSON.
ValidatorFailures == {"api_error", "not_json"}

\* JSON reports of the validator: not an object; 'corrected' missing, null,
\* a string, or an object whose 'content_html' is missing, null, a number
\* or HTML.
ValidatorReports(name, slug) ==
    { [t |-> "list"] } \cup
    { JMap([corrected |-> c]) :
        c \in {Absent, JNull, Garbage, EmptyMap} \cup
              { JMap([content_html |-> v]) :
                  v \in {JNull, JNum(PyInt(5)),
                         JStr(Heading(name) \o Para \o CollectionLink(slug)),
                         JStr(<<"<", "div", ">">> \o Para)} } }

\* report.get("corrected", {}).get("content_html", creator_html), and the
\* except branch: every exception gives the draft.
FinalHtml(report, creator_html) ==
    IF report.t # "map" THEN creator_html
    ELSE LET c == report.m.corrected
         IN  IF c.t \in {"absent", "emptymap"} THEN creator_html
             ELSE IF c.t # "map" THEN creator_html
             ELSE c.m.content_html

\* The locals of generate_description_from_web at its n-th attempt;
\* sonar_result and pro_result are those of fetch_notes_with_fallback, kept
\* until the creator is called.
NoResult == [none |-> TRUE]
DescribeLocals(r, n) ==
    [ perfume_name |-> r.perfume_name.s,
      brand_name |-> IF Truthy(GetNone(r.brand_name)) THEN r.brand_name.s ELSE <<>>,
      attempt |-> n,
      sonar_result |-> NoResult,
      pro_result |-> NoResult,
      research |-> NoResult,
      brand_slug |-> <<>>,
      creator_html |-> JNull,
      final_html |-> JNull,
      validator |-> "unset" ]

\* An exception leaves generate_description: Flask answers 500.
DescribeError(what) == Response(500, ErrorBody(what))

\* retry_if_exception_type((RateLimitError, APIError)): the exceptions after
\* which the decorator runs generate_description_from_web again.
RetryIfAny(exc) == TRUE
RetryIf(exc) == exc \in {"RateLimitError", "APIError"}

\* stop_after_attempt(CONFIG["max_retries"]): no attempt follows this one.
StopAfterAttempt(attempt) == attempt >= MaxRetries

\* An exception leaves the body of generate_description_from_web: the
\* decorator starts the next attempt with fresh locals, or lets the
\* exception out (a RetryError in place of the retried kinds) and Flask
\* answers 500.
DescribeRaise(exc) ==
    IF RetryIf(exc) /\ ~StopAfterAttempt(loc.attempt)
    THEN /\ loc' = DescribeLocals(req, loc.attempt + 1)
         /\ pc' = "d_sonar"
         /\ UNCHANGED resp
    ELSE /\ resp' = DescribeError(IF RetryIf(exc) THEN "RetryError" ELSE exc)
         /\ pc' = "done"
         /\ UNCHANGED loc

\* generate_description (src/app.py): a request without perfume_name is
\* refused; else generate_description_from_web starts its first attempt.
DescribeReceive ==
    /\ pc = "idle"
    /\ nreq < MaxRequests
    /\ \E r \in DescribeRequests :
        /\ req' = r
        /\ IF ~Truthy(GetNone(r.perfume_name))
           THEN /\ resp' = Response(400, ErrorBody("perfume_name is required"))
                /\ loc' = NoLoc
                /\ pc' = "done"
           ELSE /\ resp' = NoResp
                /\ loc' = DescribeLocals(r, 1)
                /\ pc' = "d_sonar"
    /\ nreq' = nreq + 1
    /\ calls' = <<>>
    /\ log' = {}
    /\ UNCHANGED <<env, airtable, created, resend, webVars>>

\* fetch_notes_with_fallback up to the first query: without API key the
\* result is empty and nothing is queried; else the cheaper model is
\* queried and its result is returned when it is accepted.
DescribeSonar ==
    /\ pc = "d_sonar"
    /\ IF "PERPLEXITY_API_KEY" \notin env
       THEN /\ loc' = [loc EXCEPT !.research = EmptyResult]
            /\ pc' = "d_creator"
            /\ UNCHANGED <<calls, resp>>
       ELSE /\ calls' = Append(calls, Call("perplexity", [model |-> "sonar"]))
            /\ \/ \E obj \in ResearchObjects :
                    LET r == CleanedResult(obj)
                    IN  /\ loc' = [loc EXCEPT !.sonar_result = r,
                                    !.research = IF SonarAccepted(r) THEN r ELSE @]
                        /\ pc' = IF SonarAccepted(r) THEN "d_creator" ELSE "d_pro"
                        /\ UNCHANGED resp
               \/ \E failure \in FetchFailures, stdlibJson \in BOOLEAN :
                    IF FetchRaises(failure, stdlibJson)
                    THEN DescribeRaise("UnboundLocalError")
                    ELSE /\ loc' = [loc EXCEPT !.sonar_result = EmptyResult]
                         /\ pc' = "d_pro"
                         /\ UNCHANGED resp
    /\ UNCHANGED <<req, log, nreq, env, airtable, created, resend, webVars>>

\* Lines 45-57: the stronger model is queried and the result chosen.
DescribePro ==
    /\ pc = "d_pro"
    /\ calls' = Append(calls, Call("perplexity", [model |-> "sonar-pro"]))
    /\ \/ \E obj \in ResearchObjects :
            LET r == CleanedResult(obj)
            IN  /\ loc' = [loc EXCEPT !.pro_result = r, !.research = ProChoice(r)]
                /\ pc' = "d_creator"
                /\ UNCHANGED resp
       \/ \E failure \in FetchFailures, stdlibJson \in BOOLEAN :
            IF FetchRaises(failure, stdlibJson)
            THEN DescribeRaise("UnboundLocalError")
            ELSE /\ loc' = [loc EXCEPT !.pro_result = EmptyResult,
                                       !.research = ProChoice(EmptyResult)]
                 /\ pc' = "d_creator"
                 /\ UNCHANGED resp
    /\ UNCHANGED <<req, log, nreq, env, airtable, created, resend, webVars>>

\* brand_display = brand_name or perfume_name.split()[0]
BrandDisplay(brand_name, perfume_name) ==
    IF brand_name # <<>> THEN brand_name ELSE Split(perfume_name)[1]

\* Lines 283-305: the facts are put together and the creator model is
\* asked for the HTML, which answers or raises an APIError or a
\* RateLimitError (a timeout and a connection error are APIErrors).
DescribeCreator ==
    /\ pc = "d_creator"
    /\ IF loc.brand_name = <<>> /\ Split(loc.perfume_name) = <<>>
       THEN /\ DescribeRaise("IndexError")
            /\ UNCHANGED calls
       ELSE LET slug == BrandSlug(BrandDisplay(loc.brand_name, loc.perfume_name))
            IN  /\ calls' = Append(calls,
                      Call("creator", [brand_slug |-> slug, notes |-> loc.research]))
                /\ \/ \E h \in Drafts(loc.perfume_name, slug) :
                        /\ loc' = [loc EXCEPT !.brand_slug = slug,
                                              !.creator_html = JStr(h),
                                              !.sonar_result = NoResult,
                                              !.pro_result = NoResult]
                        /\ pc' = "d_validator"
                        /\ UNCHANGED resp
                   \/ \E exc \in {"RateLimitError", "APIError"} :
                        DescribeRaise(exc)
    /\ UNCHANGED <<req, log, nreq, env, airtable, created, resend, webVars>>

\* Lines 307-326: the validator model is asked for a JSON report; the
\* corrected HTML of the report is taken, and the draft on any exception.
DescribeValidator ==
    /\ pc = "d_validator"
    /\ calls' = Append(calls, Call("validator", [content_html |-> loc.creator_html]))
    /\ \/ \E failure \in ValidatorFailures :
            loc' = [loc EXCEPT !.final_html = loc.creator_html,
                               !.validator = failure]
       \/ \E report \in ValidatorReports(loc.perfume_name, loc.brand_slug) :
            loc' = [loc EXCEPT !.final_html = FinalHtml(report, loc.creator_html),
                               !.validator = IF report.t = "map"
                                             THEN report.m.corrected.t ELSE report.t]
    /\ pc' = "d_sanitize"
    /\ UNCHANGED <<req, log, resp, nreq, env, airtable, created, resend, webVars>>

\* The response of generate_description.
Description(html) == Response(200, [description |-> html])

\* Lines 328-330: the HTML is sanitized and stripped; re.sub raises
\* TypeError on anything that is not a string.
DescribeSanitize ==
    /\ pc = "d_sanitize"
    /\ IF loc.final_html.t # "str"
       THEN DescribeRaise("TypeError")
       ELSE /\ resp' = Description(
                   StripText(SanitizeHtml(loc.final_html.s, loc.perfume_name)))
            /\ pc' = "done"
            /\ UNCHANGED loc
    /\ UNCHANGED <<req, calls, log, nreq, env, airtable, created, resend,
                   webVars>>

\* The process with or without PERPLEXITY_API_KEY.
InitDescribe ==
    /\ InitCommon
    /\ env \in {RequiredVars, RequiredVars \cup {"PERPLEXITY_API_KEY"}}
    /\ airtable = "client"
    /\ resend = NoReq
    /\ PREFERRED_LOCATION_ID = 0
    /\ CACHED_PRIMARY_LOCATION_ID = 0

NextDescribe ==
    \/ DescribeReceive
    \/ DescribeSonar
    \/ DescribePro
    \/ DescribeCreator
    \/ DescribeValidator
    \/ DescribeSanitize
    \/ Finish

SpecDescribe == InitDescribe /\ [][NextDescribe]_vars

\* The positions of the handler of POST /generate.
DescribePcs == {"d_sonar", "d_pro", "d_creator", "d_validator", "d_sanitize"}

\* The handler moves on: at each of its positions NextDescribe has a step,
\* and every such step changes pc.
DescribeAdvance == pc \in DescribePcs /\ pc' \in DescribePcs \cup {"done"}

\* The provider calls carry a timeout and the waits of the decorator are at
\* most 10 seconds: a handler that can move on does.
SpecDescribeFair == SpecDescribe /\ WF_pc(DescribeAdvance)

(***************************************************************************)
(* Properties of generate_description_from_web.                            *)
(***************************************************************************)
\* The total of notes over the three tiers.
NoteCount(result) == Len(result.top) + Len(result.heart) + Len(result.base)

\* The host of a source: its tokens up to the first "/".
Host(src) ==
    LET cut == FirstAt(src.rest, 0, "/")
    IN  SubSeq(src.rest, 1, IF cut = 0 THEN Len(src.rest) ELSE cut - 1)

\* The source is a URL at one of the allow-listed domains.
FromAllowListed(src) ==
    /\ src.scheme \in {"http://", "https://"}
    /\ \E d \in ReliableDomains : Host(src) \in {<<d>>, <<"www.", d>>}

HasAllowListedSource(result) ==
    \E i \in 1..Len(result.sources) : FromAllowListed(result.sources[i])

\* fetch_notes_with_fallback has returned in a process that holds the API key.
ResearchReturned ==
    /\ IsDescribeReq(req) /\ loc # NoLoc
    /\ pc = "d_creator" /\ loc.sonar_result # NoResult

\* C16: the cheaper model's result is returned if and only if it has at
\* least 3 notes and a source from the allow-listed domains; only otherwise
\* is the stronger model queried, whose result is returned whenever it has
\* at least 3 notes; in every other case the result is the empty one.
C16_CheaperResultIffNotesAndSource ==
    ResearchReturned =>
        LET accepted == NoteCount(loc.sonar_result) >= 3
                            /\ HasAllowListedSource(loc.sonar_result)
        IN  /\ accepted <=> CallsOf("perplexity") = {Len(calls)}
            /\ accepted => loc.research = loc.sonar_result
                             /\ loc.pro_result = NoResult
            /\ ~accepted =>
                  /\ loc.pro_result # NoResult
                  /\ loc.research = IF NoteCount(loc.pro_result) >= 3
                                    THEN loc.pro_result ELSE EmptyResult

\* C17: whatever the research API answers, fetch_notes_with_fallback
\* returns a note structure: after a research call the handler is never at
\* its end, it goes on to the stronger model or to the draft stage.
C17_ResearchNeverFails ==
    (IsDescribeReq(req) /\ calls # <<>> /\ calls[Len(calls)].op = "perplexity") =>
        /\ pc \in {"d_pro", "d_creator"}
        /\ pc = "d_creator" => DOMAIN loc.research = DOMAIN EmptyResult

\* The validate/correct stage failed: the call raised, the message was not
\* JSON, or the report holds no corrected HTML string.
ValidatorStageFailed ==
    /\ IsDescribeReq(req) /\ loc # NoLoc
    /\ \/ loc.validator \in {"api_error", "not_json", "list", "absent", "null",
                             "str", "emptymap"}
       \/ loc.validator = "map" /\ loc.final_html.t # "str"

\* C18: when the validate/correct stage failed the generation neither fails
\* nor starts over: the answer is the sanitized draft of the creator.
C18_ValidatorFailureGivesDraft ==
    /\ (IsDescribeReq(req) /\ calls # <<>> /\ calls[Len(calls)].op = "validator") =>
          pc \in {"d_sanitize", "done"}
    /\ (ValidatorStageFailed /\ pc = "done") =>
          resp = Description(
                    StripText(SanitizeHtml(loc.creator_html.s, loc.perfume_name)))

\* The indices of s between an opening script or style tag and the next
\* closing tag of that name.
ScriptPayload(s) ==
    {i \in 1..Len(s) :
        \E a \in 1..(i - 1), k \in (i + 1)..(Len(s) - 3) :
            /\ s[a] = "<" /\ Lower(s[a + 1]) \in {"script", "style"}
            /\ FirstAt(s, a + 1, ">") # 0 /\ FirstAt(s, a + 1, ">") < i
            /\ s[k] = "<" /\ s[k + 1] = "/" /\ Lower(s[k + 2]) = Lower(s[a + 1])
            /\ s[k + 3] = ">"}

\* _sanitize_html has produced the HTML of the answer.
Sanitized ==
    /\ IsDescribeReq(req) /\ loc # NoLoc
    /\ pc = "done" /\ resp.code = 200

\* C19: the sanitized HTML holds no opening or closing tag whose name is
\* outside the allow-list, and no word that stood inside a script or style
\* block of the text handed to _sanitize_html.
C19_OnlyAllowedTagsSurvive ==
    Sanitized =>
        LET out == resp.body.description
            in == loc.final_html.s
        IN  /\ \A i \in 1..Len(out) :
                  LET m == TagAt(SubSeq(out, i, Len(out)))
                  IN  m.end # 0 => m.name \in AllowedTags
            /\ \A i \in ScriptPayload(in) :
                  in[i] \in Words => \A j \in 1..Len(out) : out[j] # in[i]

\* The HTML holds the link to the collection of the slug.
HasCollectionLink(s, slug) ==
    \E i \in 1..Len(s) :
        LET t == <<"<", "a", " ", "href=/collections/">> \o slug \o <<">">>
        IN  /\ i + Len(t) - 1 <= Len(s)
            /\ SubSeq(s, i, i + Len(t) - 1) = t

\* C20: when the research gave no notes and no sources, and the creator
\* and the validator answered with HTML, the generation returns HTML that
\* holds the <h2> heading with the perfume name and the link
\* /collections/{brand slug}.
C20_EmptyResearchStillHasHeadingAndLink ==
    (IsDescribeReq(req) /\ loc # NoLoc /\ pc = "done"
        /\ loc.research = EmptyResult /\ loc.final_html.t = "str") =>
        /\ resp.code = 200
        /\ HasHeading(resp.body.description, loc.perfume_name)
        /\ HasCollectionLink(resp.body.description, loc.brand_slug)

\* C21: generate_description_from_web makes at most 3 attempts per call; an
\* attempt follows another only when the call of the generative model
\* raised and the attempt number goes up by one; an exception of another
\* kind ends the call in the attempt that raised it; the error of exhausted
\* retries comes only out of the third attempt; and every call ends.
C21_BoundedRetry ==
    /\ [][ (IsDescribeReq(req') /\ loc # NoLoc /\ loc' # NoLoc) =>
              /\ loc'.attempt \in 1..3
              /\ loc'.attempt # loc.attempt =>
                    /\ loc'.attempt = loc.attempt + 1
                    /\ pc = "d_creator" /\ pc' = "d_sonar"
                    /\ Len(calls') = Len(calls) + 1
                    /\ calls'[Len(calls')].op = "creator"
                    /\ resp' = NoResp
              /\ (resp = NoResp /\ resp'.code = 500) =>
                    /\ pc' = "done"
                    /\ loc'.attempt = loc.attempt
                    /\ resp' = DescribeError("RetryError") =>
                          loc.attempt = 3 /\ pc = "d_creator"
          ]_vars
    /\ (IsDescribeReq(req) /\ pc # "idle") ~> (pc = "done")

\* The third attempt has run and the call has ended.
C21_Witness ==
    /\ IsDescribeReq(req) /\ loc # NoLoc
    /\ loc.attempt = 3 /\ pc = "done"
    /\ resp \in {DescribeError("RetryError"), DescribeError("TypeError")}

(***************************************************************************)
(* The caches of shopify_utils: get_primary_location_id,                   *)
(* get_market_price_lists and get_catalog_price_lists, called in any order *)
(* by the code that imports the module.  req is the call made, calls the   *)
(* requests it issued, resp what it returned or raised, and loc what the   *)
(* first successful fetch of each function produced.                       *)
(***************************************************************************)
\* Calls made to the three functions in one process.
MaxCalls == 4

\* A price list of the platform; a catalog without one has priceList null.
PriceList(id, currency) == [id |-> id, currency |-> currency]
NoPriceList == [id |-> 0, currency |-> ""]

\* The markets the platform may answer the market query with, each with
\* its catalogs, and the names they carry.
Market(name, catalogs) == [name |-> name, catalogs |-> catalogs]
MarketUAE == <<"United", " ", "Arab", " ", "Emirates">>
MarketAsia == <<"Asia", " ", "Market">>
MarketNames == {MarketUAE, MarketAsia}
MarketAnswers ==
    { <<>>,
      <<Market(MarketUAE, <<PriceList(1, "AED")>>)>>,
      <<Market(MarketUAE, <<PriceList(1, "AED"), NoPriceList, PriceList(2, "USD")>>),
        Market(MarketAsia, <<NoPriceList>>)>> }

\* The catalogs the platform may answer the catalog query with.
Catalog(handle, pl) == [handle |-> handle, priceList |-> pl]
CatalogAnswers ==
    { <<>>,
      <<Catalog(<<"uae">>, PriceList(1, "AED"))>>,
      <<Catalog(<<" ", "asia", " ">>, PriceList(3, "SGD")),
        Catalog(<<"b2b">>, NoPriceList)>> }

\* price_lists[key] = {"id": pl["id"], "currency": pl["currency"]} for the
\* rows in order: the last row of a key is the one the mapping keeps.
DictOf(rows) ==
    { [key |-> rows[i].key, id |-> rows[i].pl.id, currency |-> rows[i].pl.currency] :
        i \in {i \in 1..Len(rows) :
                 \A j \in (i + 1)..Len(rows) : rows[j].key # rows[i].key} }

\* The loops of get_market_price_lists: a row per catalog with a price
\* list, under the name of its market.
RowsOfMarket(market) ==
    LET HasPriceList(pl) == pl # NoPriceList
        pls == SelectSeq(market.catalogs, HasPriceList)
    IN  [i \in 1..Len(pls) |-> [key |-> market.name, pl |-> pls[i]]]

RECURSIVE MarketRows(_)
MarketRows(markets) ==
    IF markets = <<>> THEN <<>>
    ELSE RowsOfMarket(Head(markets)) \o MarketRows(Tail(markets))

\* The loop of get_catalog_price_lists: a row per catalog with a price
\* list, under its stripped handle.
CatalogRows(catalogs) ==
    LET HasPriceList(cat) == cat.priceList # NoPriceList
        cats == SelectSeq(catalogs, HasPriceList)
    IN  [i \in 1..Len(cats) |->
            [key |-> StripText(cats[i].handle), pl |-> cats[i].priceList]]

\* How a call ends.
Returned(v) == [ret |-> v]
Raised == [raised |-> TRUE]
FirstFetches(location, markets) == [location |-> location, markets |-> markets]

\* The part of a call that is the same for the three functions.
UtilCall(fn) ==
    /\ pc = "idle"
    /\ nreq < MaxCalls
    /\ nreq' = nreq + 1
    /\ req' = [fn |-> fn]
    /\ log' = {}
    /\ UNCHANGED <<pc, env, airtable, created, resend, PREFERRED_LOCATION_ID>>

\* The notes of the caller before its first call.
History == IF loc = NoLoc THEN FirstFetches(0, NoPriceLists) ELSE loc

\* get_primary_location_id: the configured location, else the cached one,
\* else GET locations.json; the location chosen is cached.  An HTTP error
\* and an empty list raise.
GetPrimaryLocationId ==
    /\ UtilCall("get_primary_location_id")
    /\ UNCHANGED CACHED_PRICE_LISTS
    /\ IF PREFERRED_LOCATION_ID # 0
       THEN /\ resp' = Returned(PREFERRED_LOCATION_ID)
            /\ calls' = <<>>
            /\ loc' = History
            /\ UNCHANGED CACHED_PRIMARY_LOCATION_ID
       ELSE IF CACHED_PRIMARY_LOCATION_ID # 0
       THEN /\ resp' = Returned(CACHED_PRIMARY_LOCATION_ID)
            /\ calls' = <<>>
            /\ loc' = History
            /\ UNCHANGED CACHED_PRIMARY_LOCATION_ID
       ELSE /\ calls' = <<Call("getLocations", [via |-> "rest"])>>
            /\ \/ \E locs \in LocationLists :
                    /\ CACHED_PRIMARY_LOCATION_ID' = ChosenLocation(locs)
                    /\ resp' = Returned(ChosenLocation(locs))
                    /\ loc' = [History EXCEPT !.location = ChosenLocation(locs)]
               \/ /\ resp' = Raised
                  /\ loc' = History
                  /\ UNCHANGED CACHED_PRIMARY_LOCATION_ID

\* get_market_price_lists: the cached mapping when there is one; else the
\* market query.  An answer without data.markets gives {} and caches
\* nothing; else the mapping by market name is cached and returned.
GetMarketPriceLists ==
    /\ UtilCall("get_market_price_lists")
    /\ UNCHANGED CACHED_PRIMARY_LOCATION_ID
    /\ IF CACHED_PRICE_LISTS # NoPriceLists
       THEN /\ resp' = Returned(CACHED_PRICE_LISTS)
            /\ calls' = <<>>
            /\ loc' = History
            /\ UNCHANGED CACHED_PRICE_LISTS
       ELSE /\ calls' = <<Call("markets", [via |-> "graphql"])>>
            /\ \/ \E markets \in MarketAnswers :
                    LET price_lists == PriceLists(DictOf(MarketRows(markets)))
                    IN  /\ CACHED_PRICE_LISTS' = price_lists
                        /\ resp' = Returned(price_lists)
                        /\ loc' = [History EXCEPT !.markets = price_lists]
               \/ \* no data.markets in the answer
                  /\ resp' = Returned(PriceLists({}))
                  /\ loc' = History
                  /\ UNCHANGED CACHED_PRICE_LISTS
               \/ \* shopify_graphql raises
                  /\ resp' = Raised
                  /\ loc' = History
                  /\ UNCHANGED CACHED_PRICE_LISTS

\* get_catalog_price_lists: the cached mapping when there is one, the same
\* global as get_market_price_lists; else the catalog query.  No catalog
\* gives {} and caches nothing; else the mapping by catalog handle is
\* cached and returned.
GetCatalogPriceLists ==
    /\ UtilCall("get_catalog_price_lists")
    /\ UNCHANGED CACHED_PRIMARY_LOCATION_ID
    /\ loc' = History
    /\ IF CACHED_PRICE_LISTS # NoPriceLists
       THEN /\ resp' = Returned(CACHED_PRICE_LISTS)
            /\ calls' = <<>>
            /\ UNCHANGED CACHED_PRICE_LISTS
       ELSE /\ calls' = <<Call("catalogs", [via |-> "graphql"])>>
            /\ \/ \E catalogs \in CatalogAnswers :
                    IF catalogs = <<>>
                    THEN /\ resp' = Returned(PriceLists({}))
                         /\ UNCHANGED CACHED_PRICE_LISTS
                    ELSE LET price_lists == PriceLists(DictOf(CatalogRows(catalogs)))
                         IN  /\ CACHED_PRICE_LISTS' = price_lists
                             /\ resp' = Returned(price_lists)
               \/ \* shopify_graphql raises
                  /\ resp' = Raised
                  /\ UNCHANGED CACHED_PRICE_LISTS

InitCaches ==
    /\ InitCommon
    /\ env = RequiredVars
    /\ airtable = "client"
    /\ resend = NoReq
    /\ PREFERRED_LOCATION_ID \in PreferredLocations
    /\ CACHED_PRIMARY_LOCATION_ID = 0

NextCaches ==
    \/ GetPrimaryLocationId
    \/ GetMarketPriceLists
    \/ GetCatalogPriceLists

SpecCaches == InitCaches /\ [][NextCaches]_vars

\* C22: a cache that holds a value keeps it; once get_primary_location_id
\* has fetched, a later call of it issues no request and returns what was
\* fetched; a call of get_market_price_lists that returns gives a mapping
\* keyed by market names, without a request and equal to what its own first
\* successful fetch produced when there was one, and fetched by this call
\* when there was none.
C22_CachesNeverChange ==
    [][ /\ CACHED_PRIMARY_LOCATION_ID # 0 =>
              CACHED_PRIMARY_LOCATION_ID' = CACHED_PRIMARY_LOCATION_ID
        /\ CACHED_PRICE_LISTS # NoPriceLists =>
              CACHED_PRICE_LISTS' = CACHED_PRICE_LISTS
        /\ (req'.fn = "get_primary_location_id" /\ History.location # 0) =>
              calls' = <<>> /\ resp' = Returned(History.location)
        /\ (req'.fn = "get_market_price_lists" /\ resp' # Raised) =>
              /\ \A e \in resp'.ret.m : e.key \in MarketNames
              /\ IF History.markets # NoPriceLists
                 THEN calls' = <<>> /\ resp'.ret = History.markets
                 ELSE calls' # <<>>
      ]_vars

(***************************************************************************)
(* Properties of shopify_graphql and of the variant search.                *)
(***************************************************************************)
\* C23: a GraphQL request that met the rate-limit status or a transport
\* failure is sent again: while it is the only request of the variant
\* search that was sent, the search has not failed the request.
C23_SingleFailureIsRetried ==
    (IsWebhookReq(req) /\ loc # NoLoc
        /\ loc.graphql \in {"rate_limited", "transport"}
        /\ Cardinality(CallsOf("findVariant")) = 1) =>
        /\ pc # "done"
        /\ resp # Fatal("findVariant")

\* C24: the variant that get_variant_product_and_inventory_by_sku returned
\* has exactly the SKU that was asked for.
C24_FoundVariantHasExactSku ==
    (IsWebhookReq(req) /\ loc # NoLoc /\ loc.variant_gid # 0) =>
        loc.found_sku = loc.sku

(***************************************************************************)
(* The order of the steps of handle_airtable_webhook.                      *)
(***************************************************************************)
\* The place of a value in a sequence that holds it once.
PosIn(seq, x) == CHOOSE i \in 1..Len(seq) : seq[i] = x

\* The calls of the request were issued in the order of 'ops', each kind of
\* call at most once, the price-list writes once per region in the order of
\* the regions; and a mutating call was issued only after the variant
\* lookup had returned a variant.
CallsFollow(ops) ==
    /\ \A i, j \in 1..Len(calls) :
          i < j =>
            \/ PosIn(ops, calls[i].op) < PosIn(ops, calls[j].op)
            \/ /\ calls[i].op = "priceListAdd" /\ calls[j].op = "priceListAdd"
               /\ PosIn(Regions, calls[i].args.region)
                     < PosIn(Regions, calls[j].args.region)
    /\ (\E i \in 1..Len(calls) : calls[i].op \in Mutations) =>
          /\ Len(calls) >= 2
          /\ calls[1].op = "findVariant" /\ calls[2].op = "getVariant"
          /\ loc.nodes >= 1 /\ loc.variant_gid # 0

ImportedNames == {"os", "requests"}

\* An exception leaves the function.
RaisedError(name) == [raised |-> name]

\* price_info of one market: with amount and currency, without amount, with
\* amount 0, without currency.
PriceInfo(amount, currency) == [amount |-> amount, currency |-> currency]
PriceInfos ==
    { PriceInfo(PyInt(100), "AED"), PriceInfo(PyNone, "AED"),
      PriceInfo(PyInt(0), "AED"), PriceInfo(PyInt(100), "") }

\* The arguments of a call: the prices of UAE, of a market without a
\* configured price list, and of Asia, in the order of the dict; and the
\* comparison price of UAE.
PriceFixedCalls ==
    { [ fn |-> "update_price_list_fixed",
        prices |-> << [market |-> "UAE", info |-> u],
                      [market |-> "Europe", info |-> PriceInfo(PyInt(100), "EUR")],
                      [market |-> "Asia", info |-> a] >>,
        compare_prices |-> [UAE |-> c, Europe |-> PyNone, Asia |-> PyNone] ] :
        u \in PriceInfos, a \in PriceInfos,
        c \in {PyNone, PyInt(0), PyInt(120)} }

IsPriceFixedCall(r) == "prices" \in DOMAIN r

PriceFixedStart ==
    /\ pc = "idle"
    /\ nreq < MaxRequests
    /\ nreq' = nreq + 1
    /\ \E r \in PriceFixedCalls : req' = r
    /\ loc' = [market |-> 1, price_updates |-> {}]
    /\ calls' = <<>>
    /\ log' = {}
    /\ resp' = NoResp
    /\ pc' = "plf_loop"
    /\ UNCHANGED <<env, airtable, created, resend, webVars>>

\* One turn of the loop (lines 326-376): a market without amount or
\* currency, or without price list id, is skipped; else the write is sent,
\* its answer is kept in price_updates, and time.sleep(1) is called.
PriceFixedMarket ==
    /\ pc = "plf_loop"
    /\ loc.market <= Len(req.prices)
    /\ LET market == req.prices[loc.market].market
           info == req.prices[loc.market].info
           compare_val == req.compare_prices[market]
       IN  IF ~PyTruthy(info.amount) \/ info.currency = ""
                \/ market \notin DOMAIN PRICE_LIST_IDS
           THEN /\ loc' = [loc EXCEPT !.market = @ + 1]
                /\ UNCHANGED <<calls, resp, pc>>
           ELSE /\ calls' = Append(calls,
                      Call("priceListAdd",
                           [region |-> market, price_list |-> PRICE_LIST_IDS[market],
                            amount |-> info.amount, currency |-> info.currency,
                            compare |-> IF PyTruthy(compare_val)
                                        THEN compare_val ELSE PyNone]))
                /\ \E answer \in GraphqlAnswers :
                     IF ShopifyGraphqlRaises(answer)
                     THEN /\ resp' = RaisedError("HTTPError")
                          /\ pc' = "done"
                          /\ UNCHANGED loc
                     ELSE IF "time" \notin ImportedNames
                     THEN /\ resp' = RaisedError("NameError")
                          /\ pc' = "done"
                          /\ loc' = [loc EXCEPT !.price_updates =
                                        @ \cup {[market |-> market, res |-> answer]}]
                     ELSE /\ loc' = [loc EXCEPT !.market = @ + 1,
                                       !.price_updates =
                                        @ \cup {[market |-> market, res |-> answer]}]
                          /\ UNCHANGED <<resp, pc>>
    /\ UNCHANGED <<req, log, nreq, env, airtable, created, resend, webVars>>

\* return price_updates
PriceFixedReturn ==
    /\ pc = "plf_loop"
    /\ loc.market > Len(req.prices)
    /\ resp' = Returned(loc.price_updates)
    /\ pc' = "done"
    /\ UNCHANGED <<req, loc, calls, log, nreq, env, airtable, created, resend,
                   webVars>>

InitPriceFixed ==
    /\ InitCommon
    /\ env = RequiredVars
    /\ airtable = "client"
    /\ resend = NoReq
    /\ PREFERRED_LOCATION_ID = 0
    /\ CACHED_PRIMARY_LOCATION_ID = 0

NextPriceFixed ==
    \/ PriceFixedStart
    \/ PriceFixedMarket
    \/ PriceFixedReturn
    \/ Finish

SpecPriceFixed == InitPriceFixed /\ [][NextPriceFixed]_vars

\* The markets of the call that have an amount, a currency and a
\* configured price list.
WritableMarkets ==
    { req.prices[i].market : i \in
        {i \in 1..Len(req.prices) :
            /\ PyTruthy(req.prices[i].info.amount)
            /\ req.prices[i].info.currency # ""
            /\ req.prices[i].market \in DOMAIN PRICE_LIST_IDS} }

\* C26: when update_price_list_fixed has ended and no write met an HTTP
\* error, it has issued one write for each market that has an amount, a
\* currency and a configured price list, with the comparison price given
\* for the market, no write for another market, and it has returned an
\* entry for each of these markets.
C26_OneWritePerMarket ==
    (IsPriceFixedCall(req) /\ pc = "done" /\ resp # RaisedError("HTTPError")) =>
        /\ \A m \in WritableMarkets :
              \E i \in 1..Len(calls) :
                  /\ calls[i].args.region = m
                  /\ PyTruthy(req.compare_prices[m]) =>
                        calls[i].args.compare = req.compare_prices[m]
                  /\ \A j \in 1..Len(calls) : calls[j].args.region = m => j = i
        /\ \A i \in 1..Len(calls) : calls[i].args.region \in WritableMarkets
        /\ "ret" \in DOMAIN resp
        /\ {e.market : e \in resp.ret} = WritableMarkets

(***************************************************************************)
(* The responses of create_shopify_item.                                   *)
(***************************************************************************)
\* C27: a response of create_shopify_item whose body holds 'error' has a
\* status of 400 or above; a response with 'success': true has status 201
\* and comes only after the platform answered the product creation with
\* 201 and the three ids.
C27_ErrorBodyHasErrorStatus ==
    (IsCreateReq(req) /\ pc = "done") =>
        /\ "error" \in DOMAIN resp.body => resp.code >= 400
        /\ "success" \in DOMAIN resp.body =>
              /\ resp.body.success /\ resp.code = 201
              /\ loc.create_code = 201
              /\ loc.product_id # 0 /\ loc.variant_id # 0
              /\ loc.inventory_item_id # 0

(***************************************************************************)
(* The quantity of handle_airtable_webhook.                                *)
(***************************************************************************)
\* The handler is past step 5, the inventory step.
PastInventoryStep ==
    \/ pc \in {"w_pricelists", "w_respond"}
    \/ pc = "done" /\ (resp.code = 200 \/ CallsOf("priceListAdd") # {})

\* 'Qty given in shopify' is missing, blank or not a number.
QuantityMissing(raw) ==
    \/ raw.t \in {"absent", "null"}
    \/ raw.t = "str" /\ (Strip(raw.s) = <<>> \/ ParseInt(Strip(raw.s)) = ParseError)

\* Without a quantity the stock is left alone: no location lookup, no
\* inventory set, no inventory error, and a result that says 'success'.
StockUntouched ==
    (IsWebhookReq(req) /\ loc # NoLoc /\ QuantityMissing(req.data.Qty)) =>
        /\ CallsOf("getLocations") = {} /\ CallsOf("setInventory") = {}
        /\ loc.inventory_error = "None" /\ loc.inventory_update = "None"
        /\ (pc = "done" /\ resp.code = 200) =>
              /\ resp.body.status = "success"
              /\ "inventory_error" \notin DOMAIN resp.body

\* C28 as stated: without a quantity the stock is left alone, and with the
\* quantity 0 a request that is past the inventory step has issued an
\* inventory set to 0.
C28_ZeroQuantityAlwaysSet ==
    /\ StockUntouched
    /\ (IsWebhookReq(req) /\ loc # NoLoc /\ req.data.Qty = JNum(PyInt(0))
            /\ PastInventoryStep) =>
          \E i \in CallsOf("setInventory") : calls[i].args.available = 0

\* C28: without a quantity the stock is left alone; the quantity 0 is not
\* taken for a missing one: a request that is past the inventory step has
\* issued one inventory set to 0 at the location it got, or has recorded
\* the inventory error when it got no location.
C28_ZeroQuantityIsSet ==
    /\ StockUntouched
    /\ (IsWebhookReq(req) /\ loc # NoLoc /\ req.data.Qty = JNum(PyInt(0))
            /\ PastInventoryStep) =>
          IF loc.loc_id # 0
          THEN /\ Cardinality(CallsOf("setInventory")) = 1
               /\ \A i \in CallsOf("setInventory") :
                     /\ calls[i].args.available = 0
                     /\ calls[i].args.location_id = loc.loc_id
          ELSE /\ CallsOf("setInventory") = {}
               /\ CallsOf("getLocations") # {}
               /\ loc.inventory_error # "None"

\* A request with the quantity 0 was answered after an inventory set to 0.
C28_Witness ==
    /\ IsWebhookReq(req) /\ loc # NoLoc
    /\ req.data.Qty = JNum(PyInt(0))
    /\ pc = "done" /\ resp.code = 200
    /\ \E i \in CallsOf("setInventory") : calls[i].args.available = 0

====
